---- MODULE Spec2Model ----
(***************************************************************************)
(* Safety-monitoring core of the embedded controller examples:             *)
(*   - the CPU fault handler and its fault log (safety/fault_handler.c),   *)
(*   - the independent watchdog (safety/watchdog.cpp),                     *)
(*   - the ECU health monitor (safety/ecu_monitor.hpp).                    *)
(* The code's words are uint32_t.  TLC's integers end at 2^31 - 1, so the     *)
(* model's machine word is 30 bits wide: every wrap-around of the code at   *)
(* 2^32 happens here at WordModulus = 2^30 (like 2^32 a multiple of the     *)
(* log's capacity), and wider constants are cut to their low 30 bits.       *)
(***************************************************************************)
EXTENDS Integers, Sequences, FiniteSets, TLC

VARIABLES
    now,            \* the millisecond system clock (get_system_tick / get_system_time_ms)
    SCB,            \* the fault-status registers of the System Control Block
    g_fault_log,    \* fault_handler.c: the ring of FAULT_LOG_MAX_ENTRIES records
    g_fault_count,  \* fault_handler.c: total number of records appended
    nvm_flush,      \* the persistence layer: idle, flush queued, unavailable, flush failed
    trap,           \* the activation of fault_handler_common (pc and locals)
    sys,            \* what the safe-state layer has been told: mode and reason
    events,         \* ghost: the steps the running/last trap has taken, in order
    hist,           \* ghost: the records appended since the last clear, in order
    inits,          \* ghost: the number of watchdog_init calls since boot
    diagTask,       \* the diagnostic caller of fault_get_log: buffer, count, state
    wdt,            \* the Watchdog object g_watchdog
    HW_WDT,         \* the hardware watchdog timer's registers and countdown
    irq,            \* position of WDT_IRQHandler
    diag,           \* the last entry handed to DiagLog
    api,            \* the last watchdog call made by the application; ret is <<>> for void
    cfsr_arg,       \* argument of the classifier under test
    class_ret,      \* its result
    source,         \* the faults the hardware can raise: status words and stacked frame
    ecu             \* the EcuMonitor object (ecu_monitor.hpp)

vars == <<now, SCB, g_fault_log, g_fault_count, nvm_flush, trap, sys, events,
          hist, inits, diagTask, wdt, HW_WDT, irq, diag, api, cfsr_arg, class_ret,
          source, ecu>>

logVars   == <<g_fault_log, g_fault_count, hist>>
trapVars  == <<SCB, nvm_flush, trap, events>>
wdtVars   == <<wdt, HW_WDT, irq, diag, api, inits>>
probeVars == <<cfsr_arg, class_ret>>
ecuVars   == <<ecu>>

(***************************************************************************)
(* 32-bit words and the bit operations the code uses.                      *)
(***************************************************************************)
\* 1 << n
Pow2(n) == 2 ^ n

\* uint32_t arithmetic wraps; the model's word has 30 bits.
WordModulus == Pow2(30)

(***************************************************************************)
(* Bounds of the model.                                                    *)
(***************************************************************************)
\* Traps per run when the fault source is free to raise any sampled word.
MaxTraps == 2
\* Appends per run of the fault log (more than its capacity).
MaxAppends == 18
\* Appends per run when a stored bit may flip.
MaxCorruptAppends == 3
\* Largest max_count passed to fault_get_log (more than the capacity).
MaxRead == 17
\* Ticks of the clock while faults are logged.
MaxTime == 1
\* Accepted kicks per construction of the watchdog.
MaxKicks == 2
\* watchdog_init calls per boot.
MaxInits == 1

\* Traps and accepted kicks per boot when the whole core runs together.
MaxSysTraps == 1
\* Traps taken in a run that starts from any one status word.
MaxSwitchTraps == 1
\* Traps taken, and status bits latched while a handler runs, in SpecLatch.
MaxLatchTraps == 2
MaxLatches == 1
\* Traps taken from the application, and traps nested in one handler, in a run
\* with nested traps.
MaxOuterTraps == 2
MaxNested == 1
\* Appends since the log was last empty, when traps preempt a clear.
MaxClearAppends == 2
\* Kicks counted in a run that follows the timeout.
MaxTimeoutKicks == 1
\* Kicks in SpecWrap.
MaxWrapKicks == 2
MaxSysKicks == 1
\* Appends to a full log, and the largest max_count, when traps preempt a read.
MaxPreemptAppends == 2
MaxPreemptRead == 16
\* tick() calls of the health monitor per run.
MaxTicks == 4
\* tick() and check_now() calls per run when temperature is checked as well.
MaxHealthTicks == 2

\* cfsr & (1 << n)
BitSet(w, n) == (w \div Pow2(n)) % 2 = 1

\* The word with exactly the bits of S set.
RECURSIVE WordOf(_)
WordOf(S) == IF S = {} THEN 0
             ELSE LET b == CHOOSE x \in S : TRUE IN Pow2(b) + WordOf(S \ {b})

\* a & ~m, bit by bit: what writing m to a write-one-to-clear register leaves of a.
RECURSIVE AndNot(_, _)
AndNot(a, m) == IF a = 0 THEN 0
                ELSE (IF a % 2 = 1 /\ m % 2 = 0 THEN 1 ELSE 0)
                     + 2 * AndNot(a \div 2, m \div 2)

\* a & m
RECURSIVE And(_, _)
And(a, m) == IF a = 0 \/ m = 0 THEN 0
             ELSE (IF a % 2 = 1 /\ m % 2 = 1 THEN 1 ELSE 0)
                  + 2 * And(a \div 2, m \div 2)

(***************************************************************************)
(* fault_class_t and analyze_cfsr.                                         *)
(***************************************************************************)
FAULT_CLASS_RECOVERABLE == "RECOVERABLE"
FAULT_CLASS_DEGRADED    == "DEGRADED"
FAULT_CLASS_FATAL       == "FATAL"

\* The bits of CFSR that analyze_cfsr decodes.
IACCVIOL    == 0
DACCVIOL    == 1
IBUSERR     == 8
PRECISERR   == 9
IMPRECISERR == 10
UNDEFINSTR  == 16
INVSTATE    == 17
INVPC       == 18
DIVBYZERO   == 24

\* A plausible slip: the default for an undecoded word is Recoverable.
analyze_cfsr_default_recoverable(cfsr) ==
    IF cfsr % 256 # 0 /\ BitSet(cfsr, 0) THEN FAULT_CLASS_FATAL
    ELSE IF cfsr % 256 # 0 /\ BitSet(cfsr, 1) THEN FAULT_CLASS_FATAL
    ELSE IF (cfsr \div 256) % 256 # 0 /\ BitSet(cfsr, 8) THEN FAULT_CLASS_FATAL
    ELSE IF (cfsr \div 256) % 256 # 0 /\ BitSet(cfsr, 9) THEN FAULT_CLASS_DEGRADED
    ELSE IF (cfsr \div 256) % 256 # 0 /\ BitSet(cfsr, 10) THEN FAULT_CLASS_DEGRADED
    ELSE IF cfsr \div 65536 # 0 /\ BitSet(cfsr, 16) THEN FAULT_CLASS_FATAL
    ELSE IF cfsr \div 65536 # 0 /\ BitSet(cfsr, 17) THEN FAULT_CLASS_FATAL
    ELSE IF cfsr \div 65536 # 0 /\ BitSet(cfsr, 18) THEN FAULT_CLASS_FATAL
    ELSE IF cfsr \div 65536 # 0 /\ BitSet(cfsr, 24) THEN FAULT_CLASS_RECOVERABLE
    ELSE FAULT_CLASS_RECOVERABLE

\* A plausible slip: the usage-fault group is tested before the bus-fault group.
analyze_cfsr_usage_first(cfsr) ==
    IF cfsr % 256 # 0 /\ BitSet(cfsr, 0) THEN FAULT_CLASS_FATAL
    ELSE IF cfsr % 256 # 0 /\ BitSet(cfsr, 1) THEN FAULT_CLASS_FATAL
    ELSE IF cfsr \div 65536 # 0 /\ BitSet(cfsr, 16) THEN FAULT_CLASS_FATAL
    ELSE IF cfsr \div 65536 # 0 /\ BitSet(cfsr, 17) THEN FAULT_CLASS_FATAL
    ELSE IF cfsr \div 65536 # 0 /\ BitSet(cfsr, 18) THEN FAULT_CLASS_FATAL
    ELSE IF cfsr \div 65536 # 0 /\ BitSet(cfsr, 24) THEN FAULT_CLASS_RECOVERABLE
    ELSE IF (cfsr \div 256) % 256 # 0 /\ BitSet(cfsr, 8) THEN FAULT_CLASS_FATAL
    ELSE IF (cfsr \div 256) % 256 # 0 /\ BitSet(cfsr, 9) THEN FAULT_CLASS_DEGRADED
    ELSE IF (cfsr \div 256) % 256 # 0 /\ BitSet(cfsr, 10) THEN FAULT_CLASS_DEGRADED
    ELSE FAULT_CLASS_FATAL

\* analyze_cfsr: the three groups in the order of the code, each decoded bit in
\* the order of the code; a group whose decoded bits are all clear falls through
\* to the next group.
analyze_cfsr(cfsr) ==
    IF cfsr % 256 # 0 /\ BitSet(cfsr, IACCVIOL) THEN FAULT_CLASS_FATAL
    ELSE IF cfsr % 256 # 0 /\ BitSet(cfsr, DACCVIOL) THEN FAULT_CLASS_FATAL
    ELSE IF (cfsr \div 256) % 256 # 0 /\ BitSet(cfsr, IBUSERR) THEN FAULT_CLASS_FATAL
    ELSE IF (cfsr \div 256) % 256 # 0 /\ BitSet(cfsr, PRECISERR) THEN FAULT_CLASS_DEGRADED
    ELSE IF (cfsr \div 256) % 256 # 0 /\ BitSet(cfsr, IMPRECISERR) THEN FAULT_CLASS_DEGRADED
    ELSE IF cfsr \div 65536 # 0 /\ BitSet(cfsr, UNDEFINSTR) THEN FAULT_CLASS_FATAL
    ELSE IF cfsr \div 65536 # 0 /\ BitSet(cfsr, INVSTATE) THEN FAULT_CLASS_FATAL
    ELSE IF cfsr \div 65536 # 0 /\ BitSet(cfsr, INVPC) THEN FAULT_CLASS_FATAL
    ELSE IF cfsr \div 65536 # 0 /\ BitSet(cfsr, DIVBYZERO) THEN FAULT_CLASS_RECOVERABLE
    ELSE FAULT_CLASS_FATAL

(***************************************************************************)
(* fault_record_t, the checksum, and the fault log.                        *)
(***************************************************************************)
FAULT_LOG_MAX_ENTRIES == 16

\* The fields of fault_record_t the checksum covers, in declaration order
\* (every field but the trailing crc).
DataFields == <<"r0", "r1", "r2", "r3", "r12", "lr", "pc", "psr", "cfsr", "hfsr",
                "dfsr", "mmfar", "bfar", "afsr", "timestamp">>

RecordFields == {DataFields[i] : i \in 1..Len(DataFields)} \cup {"crc"}

\* crc32_calculate over the first sizeof(fault_record_t) - 4 bytes: a checksum of
\* the data fields in order, sensitive to every field and to their order, and
\* not zero on all-zero data (crc32.h is not part of the sources; a 16-bit
\* polynomial checksum stands for it).
CrcModulus == 65521

RECURSIVE CrcFold(_, _, _)
CrcFold(rec, i, h) ==
    IF i > Len(DataFields) THEN h
    ELSE CrcFold(rec, i + 1, (h * 31 + rec[DataFields[i]] + 1) % CrcModulus)

crc32_calculate(rec) == CrcFold(rec, 1, 7)

\* A record with every field zero.
ZeroRecord == [f \in RecordFields |-> 0]

\* A plausible slip: once the log is full the index stays on the last slot.
StoreIndex_saturating(count) ==
    IF count < FAULT_LOG_MAX_ENTRIES THEN count ELSE FAULT_LOG_MAX_ENTRIES - 1

\* store_fault_record, line 127: the slot the next record goes to.
StoreIndex(count) == count % FAULT_LOG_MAX_ENTRIES

\* A plausible slip: the record is copied but its checksum is left as captured.
StoreCrcValue_stale(slot) == slot.crc

\* store_fault_record, lines 133-136: the checksum stored with a slot.
StoreCrcValue(slot) == crc32_calculate(slot)

(***************************************************************************)
(* The safe-state layer (safe_state.h): what the core asks of it.          *)
(***************************************************************************)
SysNormal == [mode |-> "normal", reason |-> "none"]

\* enter_degraded_mode(reason): reduced capability, and it returns.
enter_degraded_mode(s, reason) == [mode |-> "degraded", reason |-> reason]

\* enter_safe_state(reason): the safe state is entered for that reason.
enter_safe_state(s, reason) == [mode |-> "safe", reason |-> reason]

\* What if enter_safe_state came back to its caller.
SafeStateReturns_to_caller == TRUE

\* enter_safe_state is terminal: it does not return to its caller.
SafeStateReturns == FALSE

(***************************************************************************)
(* fault_handler_common as a sequence of steps.                            *)
(***************************************************************************)
\* The exception frames the hardware can have stacked: r0-r3, r12, lr, pc, psr.
FrameA == [i \in 0..7 |-> IF i = 6 THEN 134218000 ELSE 16 + i]
FrameB == [i \in 0..7 |-> IF i = 6 THEN 134220000 ELSE 32 + 3 * i]
Frames == {FrameA, FrameB}

\* HFSR.VECTTBL, set on a bus fault during a vector table read.
HFSR_VECTTBL == Pow2(1)

NoTrap == [pc |-> "idle", record |-> ZeroRecord, stack_frame |-> FrameA,
           fault_class |-> "none", base |-> 0, index |-> 0]

\* A plausible slip: the status bits are cleared before the record is stored.
HandlerOrder_clear_first ==
    <<"capture", "clear_cfsr", "clear_hfsr", "store_copy", "store_crc",
      "store_count", "store_flush", "classify", "act">>

\* The statements of fault_handler_common (with store_fault_record inlined) in
\* program order, up to the switch.
HandlerOrder ==
    <<"capture", "store_copy", "store_crc", "store_count", "store_flush",
      "classify", "clear_cfsr", "clear_hfsr", "act">>

\* The statement after statement p.
After(p) ==
    LET i == CHOOSE k \in 1..Len(HandlerOrder) : HandlerOrder[k] = p
    IN  HandlerOrder[i + 1]

At(p) == trap.pc = p

\* WDT_IRQHandler is not running.
IrqIdle == irq = 0

Step(p) == trap' = [trap EXCEPT !.pc = After(p)]

Note(e) == events' = Append(events, e)

\* A plausible slip: the default case resumes instead of entering the safe state.
SwitchAction_default_resume(fault_class) ==
    CASE fault_class = FAULT_CLASS_DEGRADED -> "degrade"
      [] fault_class = FAULT_CLASS_FATAL -> "resume"
      [] OTHER -> "resume"

\* A plausible slip: the Degraded case is missing and falls to the default.
SwitchAction_degraded_is_default(fault_class) ==
    CASE fault_class = FAULT_CLASS_RECOVERABLE -> "resume"
      [] OTHER -> "safe_state"

\* A plausible slip: when the flush of the record failed the handler gives up
\* and returns as if the fault were recoverable.
SwitchAction_resume_when_flush_failed(fault_class) ==
    IF nvm_flush = "failed" THEN "resume"
    ELSE CASE fault_class = FAULT_CLASS_RECOVERABLE -> "resume"
           [] fault_class = FAULT_CLASS_DEGRADED -> "degrade"
           [] OTHER -> "safe_state"

\* A plausible slip: the handler waits for the flush of the record to be
\* confirmed before it acts on the classification.
SwitchAction_waits_for_flush(fault_class) ==
    IF nvm_flush # "done" THEN "wait"
    ELSE CASE fault_class = FAULT_CLASS_RECOVERABLE -> "resume"
           [] fault_class = FAULT_CLASS_DEGRADED -> "degrade"
           [] OTHER -> "safe_state"

\* The switch of lines 186-202: what is done for a classification.
SwitchAction(fault_class) ==
    CASE fault_class = FAULT_CLASS_RECOVERABLE -> "resume"
      [] fault_class = FAULT_CLASS_DEGRADED -> "degrade"
      [] OTHER -> "safe_state"

\* Exception entry: the hardware latches the cause in CFSR/HFSR, stacks the
\* frame and vectors to HardFault/MemManage/BusFault/UsageFault_Handler, which
\* all branch to fault_handler_common.
TrapEntry(budget) ==
    /\ At("idle")
    /\ IrqIdle
    /\ g_fault_count < budget
    /\ \E c \in source, fault_type \in 0..3 :
          /\ SCB' = [SCB EXCEPT !.CFSR = c.cfsr + AndNot(SCB.CFSR, c.cfsr),
                                !.HFSR = c.hfsr + AndNot(SCB.HFSR, c.hfsr)]
          /\ trap' = [NoTrap EXCEPT !.pc = HandlerOrder[1], !.stack_frame = c.frame,
                                    !.base = g_fault_count]
    /\ events' = <<>>
    /\ UNCHANGED <<now, logVars, nvm_flush, sys, diagTask, wdtVars, probeVars, ecuVars, source>>

\* A trap taken between two calls of the periodic domain.
FaultEntry(budget) ==
    /\ diagTask.state = "idle"
    /\ TrapEntry(budget)

\* A trap taken inside fault_get_log: nothing in lines 291-314 masks the fault
\* exceptions, and the handler runs to its end before the read goes on.
PreemptEntry(budget) ==
    /\ diagTask.state = "reading"
    /\ TrapEntry(budget)

\* Lines 157-173: the record filled from the stacked registers, the fault
\* status registers and the clock; its crc is set when it is stored.
CapturedRecord(stack_frame, scb, t) ==
    [r0 |-> stack_frame[0], r1 |-> stack_frame[1],
     r2 |-> stack_frame[2], r3 |-> stack_frame[3],
     r12 |-> stack_frame[4], lr |-> stack_frame[5],
     pc |-> stack_frame[6], psr |-> stack_frame[7],
     cfsr |-> scb.CFSR, hfsr |-> scb.HFSR, dfsr |-> scb.DFSR,
     mmfar |-> scb.MMFAR, bfar |-> scb.BFAR, afsr |-> scb.AFSR,
     timestamp |-> t,
     crc |-> 0]

\* Lines 154-173: capture the stacked registers and the fault status registers.
Capture ==
    /\ At("capture")
    /\ trap' = [trap EXCEPT
          !.pc = After("capture"),
          !.record = CapturedRecord(trap.stack_frame, SCB, now)]
    /\ Note("capture")
    /\ UNCHANGED <<now, SCB, logVars, nvm_flush, sys, diagTask, wdtVars, probeVars, ecuVars, source>>

\* Lines 127-130: index = g_fault_count % FAULT_LOG_MAX_ENTRIES, kept in a
\* local of store_fault_record, and g_fault_log[index] = *record.
StoreCopy ==
    /\ At("store_copy")
    /\ g_fault_log' = [g_fault_log EXCEPT ![StoreIndex(g_fault_count)] = trap.record]
    /\ trap' = [trap EXCEPT !.pc = After("store_copy"),
                            !.index = StoreIndex(g_fault_count)]
    /\ Note("store_copy")
    /\ UNCHANGED <<now, SCB, g_fault_count, hist, nvm_flush, sys, diagTask, wdtVars,
                   probeVars, ecuVars, source>>

\* Lines 133-136: g_fault_log[index].crc = crc32_calculate(the slot's data).
StoreCrc ==
    /\ At("store_crc")
    /\ LET index == trap.index
       IN  g_fault_log' = [g_fault_log EXCEPT
                              ![index].crc = StoreCrcValue(g_fault_log[index])]
    /\ Step("store_crc")
    /\ Note("store_crc")
    /\ UNCHANGED <<now, SCB, g_fault_count, hist, nvm_flush, sys, diagTask, wdtVars,
                   probeVars, ecuVars, source>>

\* Line 138: g_fault_count++.
StoreCount ==
    /\ At("store_count")
    /\ hist' = Append(hist, g_fault_log[trap.index])
    /\ g_fault_count' = (g_fault_count + 1) % WordModulus
    /\ Step("store_count")
    /\ Note("store_count")
    /\ UNCHANGED <<now, SCB, g_fault_log, nvm_flush, sys, diagTask, wdtVars,
                   probeVars, ecuVars, source>>

\* The persistence layer after nvm_flush_async() is called in state n: the
\* flush is queued, or it fails because the layer is unavailable.  The call
\* returns nothing the handler reads.
nvm_flush_async(n) == IF n \in {"unavailable", "failed"} THEN "failed" ELSE "queued"

\* Line 141: nvm_flush_async().
StoreFlush ==
    /\ At("store_flush")
    /\ nvm_flush' = nvm_flush_async(nvm_flush)
    /\ Step("store_flush")
    /\ Note("store_flush")
    /\ UNCHANGED <<now, SCB, logVars, sys, diagTask, wdtVars, probeVars, ecuVars, source>>

\* Line 179: fault_class = analyze_cfsr(record.cfsr).
Classify ==
    /\ At("classify")
    /\ trap' = [trap EXCEPT !.pc = After("classify"),
                            !.fault_class = analyze_cfsr(trap.record.cfsr)]
    /\ Note("classify")
    /\ UNCHANGED <<now, SCB, logVars, nvm_flush, sys, diagTask, wdtVars, probeVars, ecuVars, source>>

\* A plausible slip: SCB->CFSR |= record.cfsr, a read-modify-write that writes
\* back every bit set at the time of the write.
ClearCfsr_read_modify_write ==
    /\ trap.pc = "clear_cfsr"
    /\ SCB' = [SCB EXCEPT !.CFSR = 0]
    /\ trap' = [trap EXCEPT !.pc = "clear_hfsr"]
    /\ events' = Append(events, "clear_cfsr")
    /\ UNCHANGED <<now, logVars, nvm_flush, sys, diagTask, wdtVars, probeVars, ecuVars, source>>

\* Line 182: SCB->CFSR = record.cfsr (write one to clear).
ClearCfsr ==
    /\ At("clear_cfsr")
    /\ SCB' = [SCB EXCEPT !.CFSR = AndNot(SCB.CFSR, trap.record.cfsr)]
    /\ Step("clear_cfsr")
    /\ Note("clear_cfsr")
    /\ UNCHANGED <<now, logVars, nvm_flush, sys, diagTask, wdtVars, probeVars, ecuVars, source>>

\* Line 183: SCB->HFSR = record.hfsr (write one to clear).
ClearHfsr ==
    /\ At("clear_hfsr")
    /\ SCB' = [SCB EXCEPT !.HFSR = AndNot(SCB.HFSR, trap.record.hfsr)]
    /\ Step("clear_hfsr")
    /\ Note("clear_hfsr")
    /\ UNCHANGED <<now, logVars, nvm_flush, sys, diagTask, wdtVars, probeVars, ecuVars, source>>

\* The status bits the hardware may latch while a handler runs, without a new
\* trap being taken: an imprecise bus error of a buffered write (bit 10) and a
\* stacking error (bit 12, which analyze_cfsr does not decode).
LatchBits == {IMPRECISERR, 12}

LatchNote(b) == IF b = IMPRECISERR THEN "latch_imprecise" ELSE "latch_stacking"

\* Lines 166-182: between the entry of the handler and its write to SCB->CFSR
\* the hardware sets a sticky status bit; the bit may be latched before line 166
\* reads the register (and is then captured) or after it.
LatchStatus(budget) ==
    /\ trap.pc \in {"capture", "store_copy", "store_crc", "store_count",
                    "store_flush", "classify", "clear_cfsr"}
    /\ IrqIdle
    /\ Cardinality({k \in 1..Len(events) :
                        events[k] \in {LatchNote(b) : b \in LatchBits}}) < budget
    /\ \E b \in LatchBits :
          /\ SCB' = [SCB EXCEPT !.CFSR = Pow2(b) + AndNot(SCB.CFSR, Pow2(b))]
          /\ Note(LatchNote(b))
    /\ UNCHANGED <<now, logVars, nvm_flush, trap, sys, diagTask, wdtVars, probeVars,
                   ecuVars, source>>

\* A plausible slip: the faulting instruction is taken to be a 32-bit one.
resume_pc_wide(pc) == (pc + 4) % WordModulus

\* Line 189: the stacked pc after stack_frame[6] += 2, in the word's arithmetic.
resume_pc(pc) == (pc + 2) % WordModulus

\* Lines 188-190: case FAULT_CLASS_RECOVERABLE: stack_frame[6] += 2; return.
ActResume ==
    /\ At("act")
    /\ SwitchAction(trap.fault_class) = "resume"
    /\ trap' = [trap EXCEPT !.pc = "return",
                            !.stack_frame[6] = resume_pc(trap.stack_frame[6])]
    /\ Note("resume")
    /\ UNCHANGED <<now, SCB, logVars, nvm_flush, sys, diagTask, wdtVars, probeVars, ecuVars, source>>

\* A plausible slip: the Degraded case skips the faulting instruction as the
\* Recoverable case does.
ActDegrade_skips_instruction ==
    /\ trap.pc = "act"
    /\ SwitchAction(trap.fault_class) = "degrade"
    /\ sys' = enter_degraded_mode(sys, "BUS_FAULT")
    /\ trap' = [trap EXCEPT !.pc = "return",
                            !.stack_frame[6] = resume_pc(trap.stack_frame[6])]
    /\ events' = Append(events, "degrade")
    /\ UNCHANGED <<now, SCB, logVars, nvm_flush, diagTask, wdtVars, probeVars, ecuVars, source>>

\* Line 194: case FAULT_CLASS_DEGRADED: enter_degraded_mode(DEGRADE_REASON_BUS_FAULT).
ActDegrade ==
    /\ At("act")
    /\ SwitchAction(trap.fault_class) = "degrade"
    /\ sys' = enter_degraded_mode(sys, "BUS_FAULT")
    /\ trap' = [trap EXCEPT !.pc = "return"]
    /\ Note("degrade")
    /\ UNCHANGED <<now, SCB, logVars, nvm_flush, diagTask, wdtVars, probeVars, ecuVars, source>>

\* Line 200: case FAULT_CLASS_FATAL and default: enter_safe_state(SAFE_STATE_CPU_FAULT).
\* Were it to return, line 205 (NVIC_SystemReset, which never returns) is next:
\* either way the handler does not return to the interrupted code.
ActSafeState ==
    /\ At("act")
    /\ SwitchAction(trap.fault_class) = "safe_state"
    /\ sys' = enter_safe_state(sys, "CPU_FAULT")
    /\ trap' = [trap EXCEPT !.pc = IF SafeStateReturns THEN "reset" ELSE "halted"]
    /\ Note("safe_state")
    /\ UNCHANGED <<now, SCB, logVars, nvm_flush, diagTask, wdtVars, probeVars, ecuVars, source>>

\* Lines 190 and 195: return from the exception to the interrupted code.
TrapReturn ==
    /\ At("return")
    /\ trap' = NoTrap
    /\ UNCHANGED <<now, SCB, logVars, nvm_flush, sys, events, diagTask, wdtVars,
                   probeVars, ecuVars, source>>

HandlerStep ==
    /\ IrqIdle
    /\ \/ Capture
       \/ StoreCopy
       \/ StoreCrc
       \/ StoreCount
       \/ StoreFlush
       \/ Classify
       \/ ClearCfsr
       \/ ClearHfsr
       \/ ActResume
       \/ ActDegrade
       \/ ActSafeState
       \/ TrapReturn

(***************************************************************************)
(* fault_get_log and fault_clear_log, called from the periodic domain.     *)
(***************************************************************************)
\* The marker fault_get_log writes for a slot that fails verification.
\* 0xDEADBEEF, cut to the model's word.
CORRUPT_PC == 514703087

\* What the caller's buffer can hold before the call.
StaleRecord == [ZeroRecord EXCEPT !.r0 = 9, !.pc = 134219000, !.cfsr = 512,
                                  !.timestamp = 1, !.crc = 77]
BufferFills == {ZeroRecord, StaleRecord}

DiagIdle == [state |-> "idle", buffer |-> <<>>, max_count |-> 0, ret |-> 0]

\* Line 293: count = (g_fault_count < max_count) ? g_fault_count : max_count.
ReadCount(count, max_count) == IF count < max_count THEN count ELSE max_count

\* A plausible slip: the window is walked from its newest record backwards.
ReadIndex_newest_first(total, count, i) ==
    ((total - 1 - i) % WordModulus) % FAULT_LOG_MAX_ENTRIES

\* Line 296: index = (g_fault_count - count + i) % FAULT_LOG_MAX_ENTRIES.
ReadIndex(total, count, i) ==
    ((total - count + i) % WordModulus) % FAULT_LOG_MAX_ENTRIES

\* A plausible slip: the slot is copied out without comparing the checksums.
ReadEntry_unverified(slot, old) == slot

\* Lines 298-310: one slot read into buffer[i], whose previous content is old.
ReadEntry(slot, old) ==
    IF slot.crc = crc32_calculate(slot)
    THEN slot
    ELSE [old EXCEPT !.pc = CORRUPT_PC, !.timestamp = 0]

\* fault_get_log(buffer, max_count): the buffer afterwards (buffer[i] of the code
\* is element i + 1 here) and the value returned.
fault_get_log(log, total, buffer, max_count) ==
    LET count == ReadCount(total, max_count)
    IN  [buffer |-> [k \in 1..Len(buffer) |->
                        IF k <= count
                        THEN ReadEntry(log[ReadIndex(total, count, k - 1)], buffer[k])
                        ELSE buffer[k]],
         ret |-> count]

\* The diagnostic task calls fault_get_log with a buffer of max_count entries.
GetLog(maxRead, fills) ==
    /\ At("idle")
    /\ IrqIdle
    /\ diagTask.state = "idle"
    /\ \E max_count \in 0..maxRead, fill \in fills :
          LET out == fault_get_log(g_fault_log, g_fault_count,
                                   [k \in 1..max_count |-> fill], max_count)
          IN  diagTask' = [state |-> "done", buffer |-> out.buffer,
                           max_count |-> max_count, ret |-> out.ret]
    /\ UNCHANGED <<now, logVars, trapVars, sys, wdtVars, probeVars, ecuVars, source>>

\* The diagnostic task is done with the result.
ReleaseLog ==
    /\ At("idle")
    /\ IrqIdle
    /\ diagTask.state = "done"
    /\ diagTask' = DiagIdle
    /\ UNCHANGED <<now, logVars, trapVars, sys, wdtVars, probeVars, ecuVars, source>>

\* The append (1 is the first since the log was last empty) whose record slot
\* index holds, 0 if none was stored there.  Ghost: hist has one entry per append.
SlotAppend(index) ==
    LET S == {n \in 1..Len(hist) : (n - 1) % FAULT_LOG_MAX_ENTRIES = index}
    IN  IF S = {} THEN 0 ELSE CHOOSE n \in S : \A m \in S : m <= n

\* fault_get_log statement by statement.  g_fault_count and g_fault_log are
\* volatile: every mention in the source is a read of memory, and a trap can
\* be taken between any two of them.  rpc is the statement about to run; from
\* is a ghost, the append each buffer entry was copied from (0 for a marker).
ReadBegin(maxRead, fills) ==
    /\ At("idle")
    /\ IrqIdle
    /\ diagTask.state = "idle"
    /\ \E max_count \in 1..maxRead, fill \in fills :
          diagTask' = [state |-> "reading", buffer |-> [k \in 1..max_count |-> fill],
                       max_count |-> max_count, ret |-> 0, rpc |-> "test",
                       less |-> FALSE, count |-> 0, i |-> 0, index |-> 0,
                       expected_crc |-> 0, from |-> <<>>]
    /\ UNCHANGED <<now, logVars, trapVars, sys, wdtVars, probeVars, ecuVars, source>>

Reading(p) == At("idle") /\ IrqIdle /\ diagTask.state = "reading" /\ diagTask.rpc = p

\* The result of the read once i entries are written: the loop of line 295
\* goes on, or line 313 returns count.
ReadLoop(d, i) ==
    IF i < d.count
    THEN [d EXCEPT !.i = i, !.rpc = "index"]
    ELSE [state |-> "done", buffer |-> d.buffer, max_count |-> d.max_count,
          ret |-> d.count, from |-> d.from]

\* Line 293, the condition: g_fault_count < max_count.
ReadTest ==
    /\ Reading("test")
    /\ diagTask' = [diagTask EXCEPT !.less = g_fault_count < diagTask.max_count,
                                    !.rpc = "count"]
    /\ UNCHANGED <<now, logVars, trapVars, sys, wdtVars, probeVars, ecuVars, source>>

\* Line 293, the chosen operand: g_fault_count (read again) or max_count.
ReadSetCount ==
    /\ Reading("count")
    /\ LET count == IF diagTask.less THEN g_fault_count ELSE diagTask.max_count
       IN  diagTask' = ReadLoop([diagTask EXCEPT !.count = count], 0)
    /\ UNCHANGED <<now, logVars, trapVars, sys, wdtVars, probeVars, ecuVars, source>>

\* Line 296: index from g_fault_count as it is now.
ReadSetIndex ==
    /\ Reading("index")
    /\ diagTask' = [diagTask EXCEPT
          !.index = ReadIndex(g_fault_count, diagTask.count, diagTask.i),
          !.rpc = "crc"]
    /\ UNCHANGED <<now, logVars, trapVars, sys, wdtVars, probeVars, ecuVars, source>>

\* Lines 299-303: expected_crc over the slot's data.
ReadCrc ==
    /\ Reading("crc")
    /\ diagTask' = [diagTask EXCEPT
          !.expected_crc = crc32_calculate(g_fault_log[diagTask.index]),
          !.rpc = "verify"]
    /\ UNCHANGED <<now, logVars, trapVars, sys, wdtVars, probeVars, ecuVars, source>>

\* Line 304: g_fault_log[index].crc == expected_crc.
ReadVerify ==
    /\ Reading("verify")
    /\ diagTask' = [diagTask EXCEPT
          !.rpc = IF g_fault_log[diagTask.index].crc = diagTask.expected_crc
                  THEN "copy" ELSE "mark"]
    /\ UNCHANGED <<now, logVars, trapVars, sys, wdtVars, probeVars, ecuVars, source>>

\* Line 305: buffer[i] = g_fault_log[index].
ReadCopy ==
    /\ Reading("copy")
    /\ LET k == diagTask.i + 1
           d == [diagTask EXCEPT !.buffer[k] = g_fault_log[diagTask.index],
                                 !.from = Append(diagTask.from,
                                                 SlotAppend(diagTask.index))]
       IN  diagTask' = ReadLoop(d, k)
    /\ UNCHANGED <<now, logVars, trapVars, sys, wdtVars, probeVars, ecuVars, source>>

\* Lines 308-309: the corruption marker.
ReadMark ==
    /\ Reading("mark")
    /\ LET k == diagTask.i + 1
           d == [diagTask EXCEPT !.buffer[k].pc = CORRUPT_PC,
                                 !.buffer[k].timestamp = 0,
                                 !.from = Append(diagTask.from, 0)]
       IN  diagTask' = ReadLoop(d, k)
    /\ UNCHANGED <<now, logVars, trapVars, sys, wdtVars, probeVars, ecuVars, source>>

ReadStep ==
    \/ ReadTest
    \/ ReadSetCount
    \/ ReadSetIndex
    \/ ReadCrc
    \/ ReadVerify
    \/ ReadCopy
    \/ ReadMark

\* A plausible slip: only the counter is reset, the slots keep their checksums.
fault_clear_log_count_only(log) == [g_fault_count |-> 0, g_fault_log |-> log]

\* fault_clear_log(), lines 321-327: the counter and the log afterwards.
fault_clear_log(log) ==
    [g_fault_count |-> 0,
     g_fault_log |-> [i \in 0..(FAULT_LOG_MAX_ENTRIES - 1) |-> [log[i] EXCEPT !.crc = 0]]]

\* fault_clear_log() called on the operator's request.
ClearLog ==
    /\ At("idle")
    /\ IrqIdle
    /\ diagTask.state = "idle"
    /\ g_fault_count > 0
    /\ g_fault_count' = fault_clear_log(g_fault_log).g_fault_count
    /\ g_fault_log' = fault_clear_log(g_fault_log).g_fault_log
    /\ hist' = <<>>
    /\ UNCHANGED <<now, trapVars, sys, diagTask, wdtVars, probeVars, ecuVars, source>>

\* fault_clear_log statement by statement.  g_fault_count and g_fault_log are
\* volatile and nothing is masked: a trap can be taken before line 323, and
\* between any two stores of the loop.  rpc is the statement about to run.
ClearBegin ==
    /\ At("idle")
    /\ IrqIdle
    /\ diagTask.state = "idle"
    /\ g_fault_count > 0
    /\ diagTask' = [state |-> "clearing", buffer |-> <<>>, max_count |-> 0, ret |-> 0,
                    rpc |-> "count", i |-> 0]
    /\ UNCHANGED <<now, logVars, trapVars, sys, wdtVars, probeVars, ecuVars, source>>

Clearing(p) == At("idle") /\ IrqIdle /\ diagTask.state = "clearing" /\ diagTask.rpc = p

\* Line 323: g_fault_count = 0.
ClearCount ==
    /\ Clearing("count")
    /\ g_fault_count' = 0
    /\ hist' = <<>>
    /\ diagTask' = [diagTask EXCEPT !.rpc = "slot"]
    /\ UNCHANGED <<now, g_fault_log, trapVars, sys, wdtVars, probeVars, ecuVars, source>>

\* Lines 324-326: one iteration of the loop, g_fault_log[i].crc = 0, and the
\* test that ends the loop.
ClearSlot ==
    /\ Clearing("slot")
    /\ g_fault_log' = [g_fault_log EXCEPT ![diagTask.i].crc = 0]
    /\ diagTask' = IF diagTask.i + 1 < FAULT_LOG_MAX_ENTRIES
                   THEN [diagTask EXCEPT !.i = @ + 1]
                   ELSE [diagTask EXCEPT !.i = @ + 1, !.state = "cleared"]
    /\ UNCHANGED <<now, g_fault_count, hist, trapVars, sys, wdtVars, probeVars, ecuVars,
                   source>>

\* Line 327: fault_clear_log returns to the periodic domain.
ClearReturn ==
    /\ At("idle")
    /\ IrqIdle
    /\ diagTask.state = "cleared"
    /\ diagTask' = DiagIdle
    /\ UNCHANGED <<now, logVars, trapVars, sys, wdtVars, probeVars, ecuVars, source>>

ClearStep ==
    \/ ClearCount
    \/ ClearSlot
    \/ ClearReturn

\* A trap taken while fault_clear_log runs.
ClearPreemptEntry(budget) ==
    /\ diagTask.state = "clearing"
    /\ TrapEntry(budget)

\* The low bit of a word flipped.
FlipBit0(v) == IF v % 2 = 0 THEN v + 1 ELSE v - 1

\* A bit of a stored record flips in the NVM-backed RAM (at most once between
\* two clears of the log: the ghost hist then no longer matches the slot).
Corrupt ==
    /\ At("idle")
    /\ diagTask.state = "idle"
    /\ \A k \in 1..Len(hist) :
          k > Len(hist) - FAULT_LOG_MAX_ENTRIES => g_fault_log[StoreIndex(k - 1)] = hist[k]
    /\ \E i \in 0..(FAULT_LOG_MAX_ENTRIES - 1), f \in {"pc", "timestamp", "crc"} :
          /\ i < g_fault_count
          /\ g_fault_log' = [g_fault_log EXCEPT ![i][f] = FlipBit0(g_fault_log[i][f])]
    /\ UNCHANGED <<now, g_fault_count, hist, trapVars, sys, diagTask, wdtVars,
                   probeVars, ecuVars, source>>

(***************************************************************************)
(* The watchdog (watchdog.cpp).                                            *)
(***************************************************************************)
WDT_DEFAULT_TIMEOUT_MS == 100
WDT_TIMING_TOLERANCE_PERCENT == 10
WDT_MIN_TIMEOUT_MS == 10
WDT_MAX_TIMEOUT_MS == 1000

\* hw_wdt.h: the watchdog timer counts at one tick per millisecond.
WDT_CLOCK_HZ == 1000

\* ms_to_ticks, lines 165-167, in uint32_t arithmetic.
ms_to_ticks(ms) == ((ms * WDT_CLOCK_HZ) % WordModulus) \div 1000

DiagEntry(level, code, arg) == [level |-> level, code |-> code, arg |-> arg]

\* A plausible slip: the range is tested and reported but the value is kept.
Watchdog_keeps_timeout(timeout_ms) ==
    [m_timeout_ms |-> timeout_ms,
     m_started |-> FALSE,
     m_last_kick_time |-> 0,
     m_kick_count |-> 0,
     m_late_kick_count |-> 0]

\* The constructor, lines 54-66: the object built for timeout_ms.
Watchdog(timeout_ms) ==
    [m_timeout_ms |-> IF timeout_ms < WDT_MIN_TIMEOUT_MS \/ timeout_ms > WDT_MAX_TIMEOUT_MS
                      THEN WDT_DEFAULT_TIMEOUT_MS ELSE timeout_ms,
     m_started |-> FALSE,
     m_last_kick_time |-> 0,
     m_kick_count |-> 0,
     m_late_kick_count |-> 0]

\* What the constructor hands to DiagLog, lines 62-65.
WatchdogDiag(timeout_ms) ==
    IF timeout_ms < WDT_MIN_TIMEOUT_MS \/ timeout_ms > WDT_MAX_TIMEOUT_MS
    THEN <<DiagEntry("error", "WDT_INVALID_TIMEOUT", timeout_ms)>>
    ELSE <<>>

HwOff == [TIMEOUT |-> 0, CTRL |-> {}, reload |-> 0]

HwEnabled == "ENABLE" \in HW_WDT.CTRL

\* The hardware countdown has run out: TIMEOUT ticks since it was last reloaded.
Expired ==
    /\ HwEnabled
    /\ ms_to_ticks((now - HW_WDT.reload) % WordModulus) >= HW_WDT.TIMEOUT

\* The application can run: no handler is active and the countdown has not run out.
AppRuns ==
    /\ At("idle")
    /\ IrqIdle
    /\ ~Expired

\* Line 117: expected_interval = m_timeout_ms / 2.
ExpectedInterval(timeout_ms) == timeout_ms \div 2

\* Line 118: tolerance = (expected_interval * WDT_TIMING_TOLERANCE_PERCENT) / 100.
Tolerance(timeout_ms) ==
    ((ExpectedInterval(timeout_ms) * WDT_TIMING_TOLERANCE_PERCENT) % WordModulus) \div 100

\* A plausible slip: a kick exactly at the limit already counts as late.
IsLate_inclusive(elapsed, timeout_ms) ==
    elapsed >= (ExpectedInterval(timeout_ms) + Tolerance(timeout_ms)) % WordModulus

\* Line 121: elapsed > expected_interval + tolerance.
IsLate(elapsed, timeout_ms) ==
    elapsed > (ExpectedInterval(timeout_ms) + Tolerance(timeout_ms)) % WordModulus

\* A plausible slip: a late kick is recorded but the hardware is not refreshed
\* and the kick is not counted.
kick_skips_hardware_when_late(w, hw, t) ==
    LET elapsed == (t - w.m_last_kick_time) % WordModulus
        late    == IsLate(elapsed, w.m_timeout_ms)
    IN  IF ~w.m_started
        THEN [wdt |-> w, hw |-> hw, diag |-> <<>>, ret |-> FALSE, elapsed |-> 0]
        ELSE IF late
        THEN [wdt |-> [w EXCEPT !.m_late_kick_count = (@ + 1) % WordModulus],
              hw |-> hw,
              diag |-> <<[level |-> "warn", code |-> "WDT_LATE_KICK", arg |-> elapsed,
                          arg2 |-> ExpectedInterval(w.m_timeout_ms)]>>,
              ret |-> FALSE, elapsed |-> elapsed]
        ELSE [wdt |-> [w EXCEPT !.m_last_kick_time = t,
                                !.m_kick_count = (@ + 1) % WordModulus],
              hw |-> [hw EXCEPT !.reload = t],
              diag |-> <<>>, ret |-> TRUE, elapsed |-> elapsed]

\* A plausible slip: the hardware is refreshed before the started flag is tested.
kick_reloads_before_test(w, hw, t) ==
    LET elapsed == (t - w.m_last_kick_time) % WordModulus
        late    == IsLate(elapsed, w.m_timeout_ms)
    IN  IF ~w.m_started
        THEN [wdt |-> w, hw |-> [hw EXCEPT !.reload = t], diag |-> <<>>,
              ret |-> FALSE, elapsed |-> 0]
        ELSE [wdt |-> [w EXCEPT !.m_late_kick_count = IF late THEN (@ + 1) % WordModulus ELSE @,
                                !.m_last_kick_time = t,
                                !.m_kick_count = (@ + 1) % WordModulus],
              hw |-> [hw EXCEPT !.reload = t],
              diag |-> IF late
                       THEN <<[level |-> "warn", code |-> "WDT_LATE_KICK",
                               arg |-> elapsed,
                               arg2 |-> ExpectedInterval(w.m_timeout_ms)]>>
                       ELSE <<>>,
              ret |-> ~late, elapsed |-> elapsed]

\* A plausible slip: a reading of the clock below the last kick time is taken
\* for no time elapsed instead of being subtracted modulo the word.
kick_clamps_elapsed(w, hw, t) ==
    LET elapsed == IF t >= w.m_last_kick_time THEN t - w.m_last_kick_time ELSE 0
        late    == IsLate(elapsed, w.m_timeout_ms)
    IN  IF ~w.m_started
        THEN [wdt |-> w, hw |-> hw, diag |-> <<>>, ret |-> FALSE, elapsed |-> 0]
        ELSE [wdt |-> [w EXCEPT !.m_late_kick_count = IF late THEN (@ + 1) % WordModulus ELSE @,
                                !.m_last_kick_time = t,
                                !.m_kick_count = (@ + 1) % WordModulus],
              hw |-> [hw EXCEPT !.reload = t],
              diag |-> IF late
                       THEN <<[level |-> "warn", code |-> "WDT_LATE_KICK",
                               arg |-> elapsed,
                               arg2 |-> ExpectedInterval(w.m_timeout_ms)]>>
                       ELSE <<>>,
              ret |-> ~late, elapsed |-> elapsed]

\* Watchdog::kick(), lines 108-135, at time t: the object and the hardware
\* afterwards, what is handed to DiagLog, and the value returned.
kick(w, hw, t) ==
    LET elapsed == (t - w.m_last_kick_time) % WordModulus
        late    == IsLate(elapsed, w.m_timeout_ms)
    IN  IF ~w.m_started
        THEN [wdt |-> w, hw |-> hw, diag |-> <<>>, ret |-> FALSE, elapsed |-> 0]
        ELSE [wdt |-> [w EXCEPT !.m_late_kick_count = IF late THEN (@ + 1) % WordModulus ELSE @,
                                !.m_last_kick_time = t,
                                !.m_kick_count = (@ + 1) % WordModulus],
              hw |-> [hw EXCEPT !.reload = t],
              diag |-> IF late
                       THEN <<[level |-> "warn", code |-> "WDT_LATE_KICK",
                               arg |-> elapsed,
                               arg2 |-> ExpectedInterval(w.m_timeout_ms)]>>
                       ELSE <<>>,
              ret |-> ~late, elapsed |-> elapsed]

\* The timeouts the application passes to watchdog_init (0 asks for the default).
InitTimeouts == {0, 9, 10, 39, 1000, 1001}

\* watchdog_init(timeout_ms), lines 184-193.
WatchdogInit(maxInits) ==
    /\ AppRuns
    /\ inits < maxInits
    /\ \E timeout_ms \in InitTimeouts :
          LET t == IF timeout_ms = 0 THEN WDT_DEFAULT_TIMEOUT_MS ELSE timeout_ms
          IN  /\ wdt' = Watchdog(t)
              /\ diag' = WatchdogDiag(t) \o <<DiagEntry("info", "WDT_INIT", t)>>
              /\ api' = [call |-> "watchdog_init", arg |-> timeout_ms, ret |-> <<>>]
    /\ inits' = inits + 1
    /\ UNCHANGED <<now, logVars, trapVars, sys, diagTask, HW_WDT, irq, probeVars, ecuVars, source>>

\* A plausible slip: a duplicate start is reported but arms the watchdog again.
start_rearms_when_started(w, hw, t) ==
    [wdt |-> [w EXCEPT !.m_started = TRUE, !.m_last_kick_time = t],
     hw |-> [TIMEOUT |-> ms_to_ticks(w.m_timeout_ms),
             CTRL |-> {"ENABLE", "RESET_ON_TIMEOUT"},
             reload |-> t],
     diag |-> IF w.m_started
              THEN <<DiagEntry("warn", "WDT_ALREADY_STARTED", 0)>>
              ELSE <<DiagEntry("info", "WDT_STARTED", w.m_timeout_ms)>>,
     ret |-> ~w.m_started]

\* A plausible slip: start arms the watchdog but does not take the time.
start_forgets_time(w, hw, t) ==
    IF w.m_started
    THEN [wdt |-> w, hw |-> hw,
          diag |-> <<DiagEntry("warn", "WDT_ALREADY_STARTED", 0)>>,
          ret |-> FALSE]
    ELSE [wdt |-> [w EXCEPT !.m_started = TRUE],
          hw |-> [TIMEOUT |-> ms_to_ticks(w.m_timeout_ms),
                  CTRL |-> {"ENABLE", "RESET_ON_TIMEOUT"},
                  reload |-> IF "ENABLE" \in hw.CTRL THEN hw.reload ELSE t],
          diag |-> <<DiagEntry("info", "WDT_STARTED", w.m_timeout_ms)>>,
          ret |-> TRUE]

\* Watchdog::start(), lines 80-98, at time t: the object and the hardware
\* afterwards, what is handed to DiagLog, and the value returned.  Enabling a
\* countdown that already runs leaves it running.
start(w, hw, t) ==
    IF w.m_started
    THEN [wdt |-> w, hw |-> hw,
          diag |-> <<DiagEntry("warn", "WDT_ALREADY_STARTED", 0)>>,
          ret |-> FALSE]
    ELSE [wdt |-> [w EXCEPT !.m_started = TRUE, !.m_last_kick_time = t],
          hw |-> [TIMEOUT |-> ms_to_ticks(w.m_timeout_ms),
                  CTRL |-> {"ENABLE", "RESET_ON_TIMEOUT"},
                  reload |-> IF "ENABLE" \in hw.CTRL THEN hw.reload ELSE t],
          diag |-> <<DiagEntry("info", "WDT_STARTED", w.m_timeout_ms)>>,
          ret |-> TRUE]

\* watchdog_start() -> Watchdog::start(), lines 200-202.
WatchdogStart ==
    /\ AppRuns
    /\ LET out == start(wdt, HW_WDT, now)
       IN  /\ wdt' = out.wdt
           /\ HW_WDT' = out.hw
           /\ diag' = out.diag
           /\ api' = [call |-> "watchdog_start", arg |-> 0, ret |-> <<out.ret>>]
    /\ UNCHANGED <<now, logVars, trapVars, sys, diagTask, irq, inits, probeVars, ecuVars, source>>

\* watchdog_kick(), lines 210-212.
WatchdogKick(maxKicks) ==
    /\ AppRuns
    /\ wdt.m_kick_count < maxKicks
    /\ LET out == kick(wdt, HW_WDT, now)
       IN  /\ wdt' = out.wdt
           /\ HW_WDT' = out.hw
           /\ diag' = out.diag
           /\ api' = [call |-> "watchdog_kick", arg |-> out.elapsed,
                     ret |-> <<out.ret>>]
    /\ UNCHANGED <<now, logVars, trapVars, sys, diagTask, irq, inits, probeVars, ecuVars, source>>

\* get_stats(), lines 144-158: the statistics handed to the caller.
get_stats(w) ==
    [kick_count |-> w.m_kick_count,
     late_kick_count |-> w.m_late_kick_count,
     timeout_ms |-> w.m_timeout_ms,
     is_running |-> w.m_started]

\* The diagnostics read the statistics of the global watchdog; the call
\* changes nothing (get_stats is const).
WatchdogGetStats ==
    /\ AppRuns
    /\ LET stats == get_stats(wdt)
       IN  api' = [call |-> "get_stats", arg |-> stats.timeout_ms,
                   ret |-> <<stats.is_running>>]
    /\ UNCHANGED <<now, logVars, trapVars, sys, diagTask, wdt, HW_WDT, irq, diag, inits,
                   probeVars, ecuVars, source>>

\* The instants, counted from the last reload of the hardware countdown, at
\* which the model lets the application or the hardware act next.
ElapseSamples ==
    LET t == wdt.m_timeout_ms
        e == ExpectedInterval(t)
        l == e + Tolerance(t)
    IN  {e, l, l + 1, HW_WDT.TIMEOUT}

\* The instants sampled when the whole core runs together: a kick on time, or
\* silence until the countdown runs out.
SysElapseSamples == {ExpectedInterval(wdt.m_timeout_ms), HW_WDT.TIMEOUT}

\* Time passes while the hardware countdown runs, at most until it runs out.
Elapse(samples) ==
    /\ HwEnabled
    /\ ~Expired
    /\ \E e \in samples :
          /\ e > (now - HW_WDT.reload) % WordModulus
          /\ ms_to_ticks(e) <= HW_WDT.TIMEOUT
          /\ now' = (HW_WDT.reload + e) % WordModulus
    /\ UNCHANGED <<logVars, trapVars, sys, diagTask, wdtVars, probeVars, ecuVars, source>>

\* A plausible slip: the handler only logs.
IrqOrder_log_only == <<"emergency">>

\* A plausible slip: the safe state is entered before the diagnostic is logged.
IrqOrder_escalate_first == <<"safe_state", "emergency">>

\* The statements of WDT_IRQHandler, lines 222-230, in program order.
IrqOrder == <<"emergency", "safe_state">>

\* The hardware countdown ran out: the NMI vectors to WDT_IRQHandler, whatever
\* the processor was doing.
IrqEntry ==
    /\ Expired
    /\ IrqIdle
    /\ irq' = 1
    /\ UNCHANGED <<now, logVars, trapVars, sys, diagTask, wdt, HW_WDT, diag, api, inits,
                   probeVars, ecuVars, source>>

\* The next statement of WDT_IRQHandler; past the last one it returns to the
\* interrupted code.
IrqStep ==
    /\ irq >= 1
    /\ CASE irq > Len(IrqOrder) ->
              /\ irq' = 0
              /\ UNCHANGED <<sys, diag>>
         [] irq <= Len(IrqOrder) /\ IrqOrder[irq] = "emergency" ->
              /\ diag' = <<DiagEntry("emergency", "WDT_TIMEOUT", 0)>>
              /\ irq' = irq + 1
              /\ UNCHANGED sys
         [] irq <= Len(IrqOrder) /\ IrqOrder[irq] = "safe_state" ->
              /\ sys' = enter_safe_state(sys, "WatchdogTimeout")
              /\ irq' = IF SafeStateReturns THEN irq + 1 ELSE -1
              /\ UNCHANGED diag
    /\ UNCHANGED <<now, logVars, trapVars, diagTask, wdt, HW_WDT, api, inits,
                   probeVars, ecuVars, source>>

(***************************************************************************)
(* The ECU health monitor (ecu_monitor.hpp).  The sources hold its header  *)
(* only: the types, the thresholds and the members are the header's, the   *)
(* bodies of the member functions follow the design of the ECU Health      *)
(* Supervisor.                                                             *)
(***************************************************************************)
\* Lines 44-49, in millivolts.
DEFAULT_12V_THRESHOLDS ==
    [undervolt_mv |-> 9000, overvolt_mv |-> 16000, nominal_mv |-> 13800,
     hysteresis_mv |-> 500]

\* Lines 68-73, in degrees Celsius.
DEFAULT_TEMP_THRESHOLDS ==
    [warning_high_c |-> 125, shutdown_high_c |-> 150,
     warning_low_c |-> -40, shutdown_low_c |-> -50]

\* MonitorConfig with the default thresholds.
DefaultConfig == [voltage |-> DEFAULT_12V_THRESHOLDS, temp |-> DEFAULT_TEMP_THRESHOLDS]

\* enum class FaultCode: the wildcard, the voltage and the temperature faults.
NoFault == 0
Undervoltage == 256
Overvoltage == 257
OvertemperatureWarn == 512
OvertemperatureShut == 513
UndertemperatureWarn == 514
UndertemperatureShut == 515

VoltageCodes == {Undervoltage, Overvoltage}
TemperatureCodes == {OvertemperatureWarn, OvertemperatureShut,
                     UndertemperatureWarn, UndertemperatureShut}

\* enum class FaultSeverity.
Warning == 1
Critical == 3

MAX_FAULT_LOG == 64

\* No call of the monitor yet.
EcuNoCall == [name |-> "none", arg |-> 0, ret |-> <<>>]

\* EcuMonitor(config): the members of lines 289-301 after construction.  The
\* bitmap active_faults_ is the set of the codes whose bit is set; fault_log_
\* holds the records in the order they were logged.  Ghosts: ticks and checks
\* count the tick() and check_now() calls, escalated counts the invocations of
\* the escalation controller by the last tick() or check_now(), call is the
\* last call made to the monitor.
EcuMonitor(config) ==
    [config_ |-> config, running_ |-> FALSE, current_voltage_mv_ |-> 0,
     current_temperature_c_ |-> 0, fault_log_ |-> <<>>, active_faults_ |-> {},
     ticks |-> 0, checks |-> 0, escalated |-> 0, call |-> EcuNoCall]

\* log_fault(code, severity, data): the record is appended to the fault log
\* (the oldest is dropped when it is full) and the code becomes active.
log_fault(m, code, severity, data) ==
    LET rec == [code |-> code, severity |-> severity, data |-> data]
        kept == IF Len(m.fault_log_) < MAX_FAULT_LOG THEN m.fault_log_
                ELSE Tail(m.fault_log_)
    IN  [m EXCEPT !.fault_log_ = Append(kept, rec),
                  !.active_faults_ = @ \cup {code}]

\* A fault found by a sub-check: logged when it is newly detected.
raise_fault(m, code, severity, data) ==
    IF code \in m.active_faults_ THEN m ELSE log_fault(m, code, severity, data)

\* The escalation controller is invoked for a Critical fault.
escalate(m) == [m EXCEPT !.escalated = @ + 1]

\* The voltage faults whose reading is back on the nominal side of the boundary
\* it crossed by at least the hysteresis.
VoltageReturned(t, reading) ==
    {c \in {Overvoltage} : reading <= t.overvolt_mv - t.hysteresis_mv}
    \cup {c \in {Undervoltage} : reading >= t.undervolt_mv + t.hysteresis_mv}

\* A plausible slip: a fault clears as soon as the reading is back inside the
\* boundary.
check_voltage_no_hysteresis(m, reading) ==
    LET t == m.config_.voltage
        back == {c \in {Overvoltage} : reading <= t.overvolt_mv}
                \cup {c \in {Undervoltage} : reading >= t.undervolt_mv}
        m1 == [m EXCEPT !.current_voltage_mv_ = reading,
                        !.active_faults_ = @ \ back]
    IN  IF reading > t.overvolt_mv
        THEN escalate(raise_fault(m1, Overvoltage, Critical, reading))
        ELSE IF reading < t.undervolt_mv
        THEN escalate(raise_fault(m1, Undervoltage, Critical, reading))
        ELSE m1

\* A plausible slip: a fault already active is not escalated again.
check_voltage_escalates_once(m, reading) ==
    LET t == m.config_.voltage
        m1 == [m EXCEPT !.current_voltage_mv_ = reading,
                        !.active_faults_ = @ \ VoltageReturned(t, reading)]
    IN  IF reading > t.overvolt_mv /\ Overvoltage \notin m1.active_faults_
        THEN escalate(raise_fault(m1, Overvoltage, Critical, reading))
        ELSE IF reading < t.undervolt_mv /\ Undervoltage \notin m1.active_faults_
        THEN escalate(raise_fault(m1, Undervoltage, Critical, reading))
        ELSE m1

\* check_voltage() with the ADC reading: a reading beyond a boundary raises the
\* Critical fault of that boundary (one record per detection) and invokes the
\* escalation controller; an active voltage fault is cleared only by a reading
\* that has returned by the hysteresis.
check_voltage(m, reading) ==
    LET t == m.config_.voltage
        m1 == [m EXCEPT !.current_voltage_mv_ = reading,
                        !.active_faults_ = @ \ VoltageReturned(t, reading)]
    IN  IF reading > t.overvolt_mv
        THEN escalate(raise_fault(m1, Overvoltage, Critical, reading))
        ELSE IF reading < t.undervolt_mv
        THEN escalate(raise_fault(m1, Undervoltage, Critical, reading))
        ELSE m1

\* The temperature fault a reading asserts, if any: beyond a shutdown level the
\* shutdown fault, beyond a warning level only the warning fault.
TemperatureFault(t, reading) ==
    IF reading > t.shutdown_high_c THEN {OvertemperatureShut}
    ELSE IF reading > t.warning_high_c THEN {OvertemperatureWarn}
    ELSE IF reading < t.shutdown_low_c THEN {UndertemperatureShut}
    ELSE IF reading < t.warning_low_c THEN {UndertemperatureWarn}
    ELSE {}

\* The severity of a temperature fault.
TemperatureSeverity(code) ==
    IF code \in {OvertemperatureShut, UndertemperatureShut} THEN Critical ELSE Warning

\* check_temperature() with the sensor reading.  TemperatureThresholds has no
\* hysteresis: a temperature fault is active while its band holds the reading.
check_temperature(m, reading) ==
    LET found == TemperatureFault(m.config_.temp, reading)
        m1 == [m EXCEPT !.current_temperature_c_ = reading,
                        !.active_faults_ = @ \ (TemperatureCodes \ found)]
    IN  IF found = {} THEN m1
        ELSE LET code == CHOOSE c \in found : TRUE
                 m2 == raise_fault(m1, code, TemperatureSeverity(code), 0)
             IN  IF TemperatureSeverity(code) = Critical THEN escalate(m2) ELSE m2

\* The sub-checks of tick() and check_now(), in order: voltage, temperature.
run_checks(m, mv, c) ==
    check_temperature(check_voltage([m EXCEPT !.escalated = 0], mv), c)

\* A plausible slip: acknowledging one code clears the whole set.
acknowledge_fault_clears_all(m, code) == [m EXCEPT !.active_faults_ = {}]

\* acknowledge_fault(code): NoFault acknowledges every active fault.
acknowledge_fault(m, code) ==
    [m EXCEPT !.active_faults_ = IF code = NoFault THEN {} ELSE @ \ {code}]

\* get_fault_log(buffer, max_count): the records copied, oldest first.
get_fault_log(m, max_count) ==
    LET n == Len(m.fault_log_)
        count == IF n < max_count THEN n ELSE max_count
    IN  SubSeq(m.fault_log_, n - count + 1, n)

\* The supply voltages read_voltage_adc() is sampled at: nominal, and each
\* boundary and each release level with a neighbour.
VoltageSamples ==
    LET t == DEFAULT_12V_THRESHOLDS
    IN  {t.nominal_mv,
         t.undervolt_mv - 1, t.undervolt_mv,
         t.undervolt_mv + t.hysteresis_mv - 1, t.undervolt_mv + t.hysteresis_mv,
         t.overvolt_mv - t.hysteresis_mv, t.overvolt_mv - t.hysteresis_mv + 1,
         t.overvolt_mv, t.overvolt_mv + 1}

\* A temperature inside every band.
NominalTemperature == 25

\* The readings of a run in which voltage and temperature faults coexist.
HealthVoltages ==
    {DEFAULT_12V_THRESHOLDS.nominal_mv, DEFAULT_12V_THRESHOLDS.overvolt_mv + 1,
     DEFAULT_12V_THRESHOLDS.undervolt_mv - 1}
HealthTemperatures ==
    LET t == DEFAULT_TEMP_THRESHOLDS
    IN  {NominalTemperature, t.warning_high_c + 1, t.shutdown_high_c,
         t.shutdown_high_c + 1, t.warning_low_c - 1, t.shutdown_low_c - 1}

\* start(): Stopped to Running, the baseline readings are recorded.
EcuStart(volts, temps) ==
    /\ ~ecu.running_
    /\ \E mv \in volts, c \in temps :
          ecu' = [ecu EXCEPT !.running_ = TRUE, !.current_voltage_mv_ = mv,
                             !.current_temperature_c_ = c,
                             !.call = [name |-> "start", arg |-> 0, ret |-> <<TRUE>>]]
    /\ UNCHANGED <<now, logVars, trapVars, sys, diagTask, wdtVars, probeVars, source>>

\* stop(): Running to Stopped.
EcuStop ==
    /\ ecu.running_
    /\ ecu' = [ecu EXCEPT !.running_ = FALSE,
                          !.call = [name |-> "stop", arg |-> 0, ret |-> <<>>]]
    /\ UNCHANGED <<now, logVars, trapVars, sys, diagTask, wdtVars, probeVars, source>>

\* tick() of the running monitor: the sub-checks on fresh readings.
EcuTick(budget, volts, temps) ==
    /\ ecu.running_
    /\ ecu.ticks + ecu.checks < budget
    /\ \E mv \in volts, c \in temps :
          ecu' = [run_checks(ecu, mv, c) EXCEPT
                     !.ticks = ecu.ticks + 1,
                     !.call = [name |-> "tick", arg |-> 0, ret |-> <<>>]]
    /\ UNCHANGED <<now, logVars, trapVars, sys, diagTask, wdtVars, probeVars, source>>

\* check_now(): the sub-checks once, out of cycle; true when no fault is active
\* afterwards.
EcuCheckNow(budget, volts, temps) ==
    /\ ecu.running_
    /\ ecu.ticks + ecu.checks < budget
    /\ \E mv \in volts, c \in temps :
          LET m == run_checks(ecu, mv, c)
          IN  ecu' = [m EXCEPT
                         !.checks = ecu.checks + 1,
                         !.call = [name |-> "check_now", arg |-> 0,
                                   ret |-> <<m.active_faults_ = {}>>]]
    /\ UNCHANGED <<now, logVars, trapVars, sys, diagTask, wdtVars, probeVars, source>>

\* The codes the operator acknowledges: the wildcard, and a voltage, a
\* temperature shutdown and a temperature warning fault.
AckCodes == {NoFault, Overvoltage, OvertemperatureShut, UndertemperatureWarn}

\* acknowledge_fault(code) by the operator.
EcuAcknowledge ==
    /\ \E code \in AckCodes :
          ecu' = [acknowledge_fault(ecu, code) EXCEPT
                     !.call = [name |-> "acknowledge_fault", arg |-> code, ret |-> <<>>]]
    /\ UNCHANGED <<now, logVars, trapVars, sys, diagTask, wdtVars, probeVars, source>>

(***************************************************************************)
(* Boot, time, and the specifications.                                     *)
(***************************************************************************)
SCBReset == [CFSR |-> 0, HFSR |-> 0, DFSR |-> 0, MMFAR |-> 536870912,
             BFAR |-> 1073741824, AFSR |-> 0]

ApiNone == [call |-> "none", arg |-> 0, ret |-> <<>>]

\* The clock ticks between faults (the handler reads it once, at capture).
Tick ==
    /\ now < MaxTime
    /\ At("idle")
    /\ diagTask.state = "idle"
    /\ now' = now + 1
    /\ UNCHANGED <<logVars, trapVars, sys, diagTask, wdtVars, probeVars, ecuVars, source>>

\* The reset that follows the safe state: everything is initialised again but
\* the fault log, which lives in .noinit memory (lines 62-63).
ExternalReset ==
    /\ sys.mode = "safe"
    /\ now' = 0
    /\ SCB' = SCBReset
    /\ nvm_flush' = "idle"
    /\ trap' = NoTrap
    /\ sys' = SysNormal
    /\ events' = <<>>
    /\ inits' = 0
    /\ diagTask' = DiagIdle
    /\ wdt' = Watchdog(WDT_DEFAULT_TIMEOUT_MS)
    /\ HW_WDT' = HwOff
    /\ irq' = 0
    /\ diag' = <<>>
    /\ api' = ApiNone
    /\ UNCHANGED <<logVars, probeVars, ecuVars, source>>

\* The bits of CFSR the classifier is probed with: the decoded ones and one
\* undecoded bit of each group (two of the usage-fault group).
UndecodedBits == {4, 12, 19, 25}
DecodedBits == {IACCVIOL, DACCVIOL, IBUSERR, PRECISERR, IMPRECISERR, UNDEFINSTR,
                INVSTATE, INVPC, DIVBYZERO}
CfsrWords == {WordOf(S) : S \in SUBSET (DecodedBits \cup UndecodedBits)}
UnknownWords == {WordOf(S) : S \in SUBSET UndecodedBits}

Fault(bits, h, f) == [cfsr |-> WordOf(bits), hfsr |-> h, frame |-> f]

\* The faults raised when any fault may follow any other.
TrapFaults ==
    {Fault({}, HFSR_VECTTBL, FrameA),              \* no cause bit at all
     Fault({4}, 0, FrameB),                       \* only an undecoded bit
     Fault({12, 25}, HFSR_VECTTBL, FrameA),        \* only undecoded bits
     Fault({DACCVIOL, PRECISERR}, 0, FrameA),     \* Fatal
     Fault({IBUSERR}, 0, FrameB),                 \* Fatal
     Fault({INVSTATE, DIVBYZERO}, 0, FrameA),     \* Fatal
     Fault({PRECISERR}, 0, FrameB),               \* Degraded
     Fault({IMPRECISERR, UNDEFINSTR}, HFSR_VECTTBL, FrameA),  \* Degraded
     Fault({DIVBYZERO}, 0, FrameB),               \* Recoverable
     Fault({4, DIVBYZERO}, 0, FrameA)}            \* Recoverable

\* The recurring fault of a run that fills the log.
LogFaults ==
    {Fault({DIVBYZERO}, 0, FrameA),
     Fault({PRECISERR}, HFSR_VECTTBL, FrameB)}

\* The recurring fault of a short run in which the log is also cleared or damaged.
ShortLogFaults == LogFaults \cup {Fault({IACCVIOL}, HFSR_VECTTBL, FrameA)}

\* The slots of a log the operator has cleared: any content, checksum 0.
ClearedSlots == {ZeroRecord, [StaleRecord EXCEPT !.crc = 0]}

\* The clock at the start of a run; the last is 30 ms before it wraps.
BootClock == {0, WordModulus - 30}

\* The log after fault_clear_log, every slot holding g.
ClearedLog(g) == [i \in 0..(FAULT_LOG_MAX_ENTRIES - 1) |-> g]

InitCore ==
    /\ SCB = SCBReset
    /\ g_fault_count = 0
    /\ nvm_flush = "idle"
    /\ trap = NoTrap
    /\ sys = SysNormal
    /\ events = <<>>
    /\ hist = <<>>
    /\ inits = 0
    /\ diagTask = DiagIdle
    /\ wdt = Watchdog(WDT_DEFAULT_TIMEOUT_MS)
    /\ HW_WDT = HwOff
    /\ irq = 0
    /\ diag = <<>>
    /\ api = ApiNone
    /\ ecu = EcuMonitor(DefaultConfig)

\* The classifier applied to a status word.
ClassifyProbe ==
    /\ class_ret = "none"
    /\ class_ret' = analyze_cfsr(cfsr_arg)
    /\ UNCHANGED <<now, logVars, trapVars, sys, diagTask, wdtVars, cfsr_arg, source,
                   ecuVars>>

InitClassify ==
    /\ InitCore
    /\ g_fault_log = ClearedLog(ZeroRecord)
    /\ now = 0
    /\ source = {}
    /\ cfsr_arg \in CfsrWords
    /\ class_ret = "none"

NextClassify == ClassifyProbe

SpecClassify == InitClassify /\ [][NextClassify]_vars

\* One recurring fault, of any status word over the probed bits.
InitSwitch ==
    /\ InitCore
    /\ g_fault_log = ClearedLog(ZeroRecord)
    /\ now = 0
    /\ source \in {{Fault(S, 0, FrameA)} : S \in SUBSET (DecodedBits \cup UndecodedBits)}
    /\ cfsr_arg = 0
    /\ class_ret = "none"

NextSwitch ==
    \/ FaultEntry(MaxSwitchTraps)
    \/ HandlerStep

SpecSwitch == InitSwitch /\ [][NextSwitch]_vars

\* The faults raised while further status bits are latched: one of each class,
\* one of them with a bit of LatchBits among its own.
LatchFaults ==
    {Fault({DIVBYZERO}, 0, FrameB),
     Fault({PRECISERR}, 0, FrameB),
     Fault({IMPRECISERR, UNDEFINSTR}, HFSR_VECTTBL, FrameA),
     Fault({12, 25}, HFSR_VECTTBL, FrameA)}

InitLatch ==
    /\ InitCore
    /\ g_fault_log = ClearedLog(ZeroRecord)
    /\ now = 0
    /\ source = LatchFaults
    /\ cfsr_arg = 0
    /\ class_ret = "none"

\* Traps during whose handlers the hardware latches further status bits.
NextLatch ==
    \/ FaultEntry(MaxLatchTraps)
    \/ HandlerStep
    \/ LatchStatus(MaxLatches)

InitTrap ==
    /\ InitCore
    /\ \E g \in ClearedSlots : g_fault_log = ClearedLog(g)
    /\ now = 0
    /\ source = TrapFaults
    /\ cfsr_arg = 0
    /\ class_ret = "none"

NextTrap ==
    \/ FaultEntry(MaxTraps)
    \/ HandlerStep
    \/ Tick
    \/ ExternalReset

SpecTrap == InitTrap /\ [][NextTrap]_vars

SpecLatch == InitLatch /\ [][NextLatch]_vars

\* The faults raised while the persistence layer may fail: one of each class
\* and one with no known cause.
EscalateFaults ==
    {Fault({DIVBYZERO}, 0, FrameA),
     Fault({IMPRECISERR, UNDEFINSTR}, HFSR_VECTTBL, FrameB),
     Fault({IBUSERR}, 0, FrameA),
     Fault({}, HFSR_VECTTBL, FrameB)}

\* The persistence layer becomes unavailable, at any moment: from then on a
\* flush fails, and one already queued is lost.
NvmFails ==
    /\ nvm_flush \in {"idle", "queued"}
    /\ nvm_flush' = "unavailable"
    /\ UNCHANGED <<now, SCB, logVars, trap, events, sys, diagTask, wdtVars,
                   probeVars, ecuVars, source>>

InitEscalate ==
    /\ InitCore
    /\ g_fault_log = ClearedLog(ZeroRecord)
    /\ now = 0
    /\ source = EscalateFaults
    /\ cfsr_arg = 0
    /\ class_ret = "none"

NextEscalate ==
    \/ FaultEntry(MaxTraps)
    \/ HandlerStep
    \/ NvmFails
    \/ ExternalReset

SpecEscalate == InitEscalate /\ [][NextEscalate]_vars

InitLog ==
    /\ InitCore
    /\ g_fault_log = ClearedLog([StaleRecord EXCEPT !.crc = 0])
    /\ now = 0
    /\ \E c \in LogFaults : source = {c}
    /\ cfsr_arg = 0
    /\ class_ret = "none"

NextLog ==
    \/ FaultEntry(MaxAppends)
    \/ HandlerStep
    \/ Tick
    \/ GetLog(MaxRead, {StaleRecord})
    \/ ReleaseLog

SpecLog == InitLog /\ [][NextLog]_vars

NextCorrupt ==
    \/ FaultEntry(MaxCorruptAppends)
    \/ HandlerStep
    \/ ClearLog
    \/ Corrupt
    \/ GetLog(MaxCorruptAppends + 1, BufferFills)
    \/ ReleaseLog
    \/ ExternalReset

InitCorrupt ==
    /\ InitCore
    /\ g_fault_log = ClearedLog([StaleRecord EXCEPT !.crc = 0])
    /\ now = 0
    /\ \E c \in ShortLogFaults : source = {c}
    /\ cfsr_arg = 0
    /\ class_ret = "none"

SpecCorrupt == InitCorrupt /\ [][NextCorrupt]_vars

\* A read of a full log that fault traps may preempt, each overwriting the
\* oldest record.
\* The record in the log after a trap for fault c at time t, taken with the
\* status registers otherwise clear.
LoggedRecord(c, t) ==
    LET r == CapturedRecord(c.frame, [SCBReset EXCEPT !.CFSR = c.cfsr, !.HFSR = c.hfsr], t)
    IN  [r EXCEPT !.crc = StoreCrcValue(r)]

\* The fault that has filled the log before the read: a division by zero, from
\* which the handler returns.
FillFault == Fault({DIVBYZERO}, 0, FrameA)

\* The core after FAULT_LOG_MAX_ENTRIES traps for FillFault since boot: every
\* slot holds its record, the last flush is queued, the handler has returned.
InitPreempt ==
    /\ SCB = SCBReset
    /\ g_fault_count = FAULT_LOG_MAX_ENTRIES
    /\ g_fault_log = ClearedLog(LoggedRecord(FillFault, 0))
    /\ hist = [n \in 1..FAULT_LOG_MAX_ENTRIES |-> LoggedRecord(FillFault, 0)]
    /\ nvm_flush = "queued"
    /\ trap = NoTrap
    /\ sys = SysNormal
    /\ events = <<"capture", "store_copy", "store_crc", "store_count", "store_flush",
                  "classify", "clear_cfsr", "clear_hfsr", "resume">>
    /\ inits = 0
    /\ diagTask = DiagIdle
    /\ wdt = Watchdog(WDT_DEFAULT_TIMEOUT_MS)
    /\ HW_WDT = HwOff
    /\ irq = 0
    /\ diag = <<>>
    /\ api = ApiNone
    /\ ecu = EcuMonitor(DefaultConfig)
    /\ now = 0
    /\ source = LogFaults
    /\ cfsr_arg = 0
    /\ class_ret = "none"

NextPreempt ==
    \/ FaultEntry(FAULT_LOG_MAX_ENTRIES + MaxPreemptAppends)
    \/ PreemptEntry(FAULT_LOG_MAX_ENTRIES + MaxPreemptAppends)
    \/ HandlerStep
    \/ ReadBegin(MaxPreemptRead, {StaleRecord})
    \/ ReadStep
    \/ ReleaseLog

SpecPreempt == InitPreempt /\ [][NextPreempt]_vars

\* The faults raised while a handler runs: an imprecise bus error reported late
\* by the bus, and an instruction access violation.
NestedFaults ==
    {Fault({IMPRECISERR}, 0, FrameB),
     Fault({IACCVIOL}, HFSR_VECTTBL, FrameB)}

\* fault_handler_common, lines 152-206, run from its entry to its end by a trap
\* for fault c that preempts a running handler: the status registers after the
\* hardware has latched the cause, the record captured and stored, the status
\* bits cleared, and what the switch does.
NestedHandler(c) ==
    LET latched == [SCB EXCEPT !.CFSR = c.cfsr + AndNot(SCB.CFSR, c.cfsr),
                               !.HFSR = c.hfsr + AndNot(SCB.HFSR, c.hfsr)]
        record  == CapturedRecord(c.frame, latched, now)
        index   == StoreIndex(g_fault_count)
        stored  == [record EXCEPT !.crc = StoreCrcValue(record)]
    IN  [g_fault_log   |-> [g_fault_log EXCEPT ![index] = stored],
         g_fault_count |-> (g_fault_count + 1) % WordModulus,
         stored        |-> stored,
         nvm_flush     |-> nvm_flush_async(nvm_flush),
         SCB           |-> [latched EXCEPT !.CFSR = AndNot(latched.CFSR, record.cfsr),
                                           !.HFSR = AndNot(latched.HFSR, record.hfsr)],
         action        |-> SwitchAction(analyze_cfsr(record.cfsr))]

\* A trap of higher priority taken while store_fault_record runs in a handler
\* of lower priority (no handler masks or raises the priority). The nested
\* handler runs to its end before the preempted one goes on; when it ends in
\* the safe state the preempted handler never goes on. (With the status bits of
\* the preempted trap still latched, the faults raised here classify as Degraded
\* or Fatal, never as Recoverable.)
NestedTrap(budget) ==
    /\ trap.pc \in {"store_copy", "store_crc", "store_count", "store_flush"}
    /\ IrqIdle
    /\ Cardinality({k \in 1..Len(events) : events[k] = "nested"}) < budget
    /\ \E c \in NestedFaults :
          LET out == NestedHandler(c)
          IN  /\ out.action # "resume"
              /\ g_fault_log' = out.g_fault_log
              /\ g_fault_count' = out.g_fault_count
              /\ hist' = Append(hist, out.stored)
              /\ nvm_flush' = out.nvm_flush
              /\ SCB' = out.SCB
              /\ sys' = IF out.action = "degrade"
                        THEN enter_degraded_mode(sys, "BUS_FAULT")
                        ELSE enter_safe_state(sys, "CPU_FAULT")
              /\ trap' = IF out.action = "degrade" THEN trap
                         ELSE [trap EXCEPT !.pc = IF SafeStateReturns THEN "reset"
                                                  ELSE "halted"]
    /\ Note("nested")
    /\ UNCHANGED <<now, diagTask, wdtVars, probeVars, ecuVars, source>>

\* The clock ticks once the log is full, so that the records that overwrite
\* differ from the records overwritten.
LateTick ==
    /\ g_fault_count >= FAULT_LOG_MAX_ENTRIES
    /\ Tick

\* The log filled past its capacity and cleared between traps.
NextRing ==
    \/ FaultEntry(MaxAppends)
    \/ HandlerStep
    \/ LateTick
    \/ ClearLog

SpecRing == InitLog /\ [][NextRing]_vars

\* Traps of one recurring fault, of every class, on a log that fills up and
\* wraps, with the watchdog started and left without kicks.  The processor
\* executes the statements of a handler it has entered: the steps of
\* fault_handler_common and of WDT_IRQHandler are weakly fair.
InitLive ==
    /\ InitCore
    /\ g_fault_log = ClearedLog(ZeroRecord)
    /\ now = 0
    /\ \E c \in TrapFaults : source = {c}
    /\ cfsr_arg = 0
    /\ class_ret = "none"

NextLive ==
    \/ FaultEntry(MaxAppends)
    \/ HandlerStep
    \/ WatchdogStart
    \/ Elapse({HW_WDT.TIMEOUT})
    \/ IrqEntry
    \/ IrqStep

SpecLive ==
    /\ InitLive
    /\ [][NextLive]_vars
    /\ WF_vars(HandlerStep)
    /\ WF_vars(IrqStep)

\* A clear of the log that fault traps may preempt.
InitClear ==
    /\ InitCore
    /\ g_fault_log = ClearedLog(ZeroRecord)
    /\ now = 0
    /\ source = ShortLogFaults
    /\ cfsr_arg = 0
    /\ class_ret = "none"

NextClear ==
    \/ FaultEntry(MaxClearAppends)
    \/ ClearPreemptEntry(MaxClearAppends)
    \/ HandlerStep
    \/ ClearBegin
    \/ ClearStep

SpecClear == InitClear /\ [][NextClear]_vars

\* Traps that may nest, on a log that starts empty.
InitNested ==
    /\ InitCore
    /\ g_fault_log = ClearedLog(ZeroRecord)
    /\ now = 0
    /\ source = ShortLogFaults
    /\ cfsr_arg = 0
    /\ class_ret = "none"

NextNested ==
    \/ FaultEntry(MaxOuterTraps)
    \/ HandlerStep
    \/ NestedTrap(MaxNested)

SpecNested == InitNested /\ [][NextNested]_vars

\* The health monitor alone, ticked by the runtime with any sampled reading.
InitEcu ==
    /\ InitCore
    /\ g_fault_log = ClearedLog(ZeroRecord)
    /\ now = 0
    /\ source = {}
    /\ cfsr_arg = 0
    /\ class_ret = "none"

NextEcu ==
    \/ EcuStart(VoltageSamples, {NominalTemperature})
    \/ EcuStop
    \/ EcuTick(MaxTicks, VoltageSamples, {NominalTemperature})

SpecEcu == InitEcu /\ [][NextEcu]_vars

\* The health monitor with voltage and temperature faults, checked in and out
\* of cycle and acknowledged by the operator.
NextHealth ==
    \/ EcuStart({DEFAULT_12V_THRESHOLDS.nominal_mv}, {NominalTemperature})
    \/ EcuTick(MaxHealthTicks, HealthVoltages, HealthTemperatures)
    \/ EcuCheckNow(MaxHealthTicks, HealthVoltages, HealthTemperatures)
    \/ EcuAcknowledge

SpecHealth == InitEcu /\ [][NextHealth]_vars

InitWdt ==
    /\ InitCore
    /\ g_fault_log = ClearedLog(ZeroRecord)
    /\ now \in BootClock
    /\ source = {}
    /\ cfsr_arg = 0
    /\ class_ret = "none"

NextWdt ==
    \/ WatchdogInit(MaxInits)
    \/ WatchdogStart
    \/ WatchdogKick(MaxKicks)
    \/ Elapse(ElapseSamples)
    \/ IrqEntry
    \/ IrqStep
    \/ ExternalReset

SpecWdt == InitWdt /\ [][NextWdt]_vars

\* The instants at which a kick is on time, and late.
KickSamples ==
    LET t == wdt.m_timeout_ms
    IN  {ExpectedInterval(t), ExpectedInterval(t) + Tolerance(t) + 1}

\* The watchdog set up before or after it is started, kicked and asked for
\* its statistics.
NextTimeout ==
    \/ WatchdogInit(MaxInits)
    \/ WatchdogStart
    \/ WatchdogKick(MaxTimeoutKicks)
    \/ WatchdogGetStats
    \/ Elapse(KickSamples)

SpecTimeout == InitWdt /\ [][NextTimeout]_vars

\* Kicks at the boundaries of the timing window, with a clock that starts at
\* zero or just below its wraparound.
NextWrap ==
    \/ WatchdogInit(MaxInits)
    \/ WatchdogStart
    \/ WatchdogKick(MaxWrapKicks)
    \/ Elapse(ElapseSamples)

SpecWrap == InitWdt /\ [][NextWrap]_vars

\* watchdog_init called where HLR-SAF-001 puts it: before the watchdog is started.
InitBeforeStart ==
    /\ ~HwEnabled
    /\ WatchdogInit(MaxInits)

\* The watchdog used as intended: initialised, started once, then kicked.  The
\* hardware raises its interrupt when the countdown runs out and the handler
\* runs its statements: both are weakly fair.
NextArmed ==
    \/ InitBeforeStart
    \/ WatchdogStart
    \/ WatchdogKick(MaxKicks)
    \/ Elapse(ElapseSamples)
    \/ IrqEntry
    \/ IrqStep
    \/ ExternalReset

SpecArmed ==
    /\ InitWdt
    /\ [][NextArmed]_vars
    /\ WF_vars(IrqEntry)
    /\ WF_vars(IrqStep)

\* The faults raised when the whole core runs together: one of each class.
SysFaults ==
    {Fault({DIVBYZERO}, 0, FrameA),
     Fault({PRECISERR}, 0, FrameB),
     Fault({12}, HFSR_VECTTBL, FrameA)}

Init ==
    /\ InitCore
    /\ g_fault_log = ClearedLog(ZeroRecord)
    /\ now = 0
    /\ source = SysFaults
    /\ cfsr_arg = 0
    /\ class_ret = "none"

Next ==
    \/ FaultEntry(MaxSysTraps)
    \/ HandlerStep
    \/ GetLog(1, {ZeroRecord})
    \/ ReleaseLog
    \/ ClearLog
    \/ WatchdogStart
    \/ WatchdogKick(MaxSysKicks)
    \/ Elapse(SysElapseSamples)
    \/ IrqEntry
    \/ IrqStep
    \/ ExternalReset

Spec == Init /\ [][Next]_vars

(***************************************************************************)
(* The claims.                                                             *)
(***************************************************************************)
Last(q) == q[Len(q)]

Noted(e) == \E k \in 1..Len(events) : events[k] = e

\* A step of the running trap that notes event e.
Notes(e) == events' # events /\ Len(events') > 0 /\ Last(events') = e

\* None of the cause bits analyze_cfsr decodes is set in w.
NoKnownCause(w) == \A b \in DecodedBits : ~BitSet(w, b)

\* C1: a status word with none of the known cause bits set (the all-zero word
\* and words with only undecoded bits included) classifies Fatal, and the
\* handler that captured it enters the safe state: it never advances the
\* stacked pc, never enters degraded mode and never returns.
C1_UnknownCauseIsFatal ==
    /\ \A w \in UnknownWords :
          /\ analyze_cfsr(w) = FAULT_CLASS_FATAL
          /\ SwitchAction(analyze_cfsr(w)) = "safe_state"
    /\ (trap.pc \notin {"idle", "capture"} /\ NoKnownCause(trap.record.cfsr)) =>
          /\ trap.fault_class \in {"none", FAULT_CLASS_FATAL}
          /\ ~Noted("resume")
          /\ ~Noted("degrade")
          /\ trap.stack_frame[6] = trap.record.pc
          /\ trap.pc # "return"
          /\ Noted("safe_state") <=> trap.pc = "halted"
          /\ trap.pc = "halted" => sys = [mode |-> "safe", reason |-> "CPU_FAULT"]

C1_Witness ==
    /\ trap.pc = "halted"
    /\ trap.record.cfsr # 0
    /\ NoKnownCause(trap.record.cfsr)
    /\ sys.mode = "safe"

\* The record of the running trap is fully appended: copied to its slot with
\* the checksum of its data, and counted.
RecordStored ==
    /\ g_fault_count = (trap.base + 1) % WordModulus
    /\ g_fault_log[trap.base % FAULT_LOG_MAX_ENTRIES] =
          [trap.record EXCEPT !.crc = crc32_calculate(trap.record)]

\* The status bits the running trap captured have been cleared.
StatusCleared ==
    /\ Noted("clear_cfsr")
    /\ Noted("clear_hfsr")
    /\ And(SCB.CFSR, trap.record.cfsr) = 0
    /\ And(SCB.HFSR, trap.record.hfsr) = 0

\* C2: in every trap the record is fully appended to the log before a status
\* bit is cleared, and the status bits are cleared before any escalation (pc
\* advance, degraded mode, safe state); nothing but an escalation step changes
\* the stacked frame or the system mode while the handler runs.
C2_LogThenClearThenAct ==
    [][/\ (Notes("clear_cfsr") \/ Notes("clear_hfsr")) => RecordStored
       /\ (~At("idle") /\ SCB' # SCB) => RecordStored
       /\ (Notes("resume") \/ Notes("degrade") \/ Notes("safe_state")) =>
             (RecordStored /\ StatusCleared)
       /\ (trap.pc \notin {"idle", "return", "halted"}
           /\ (sys' # sys \/ trap'.stack_frame # trap.stack_frame)) =>
             (RecordStored /\ StatusCleared)
      ]_vars

C2_Witness ==
    /\ trap.pc = "return"
    /\ Len(events) = 9
    /\ Noted("store_copy") /\ Noted("store_crc") /\ Noted("store_count")
    /\ Noted("clear_cfsr") /\ Noted("clear_hfsr")
    /\ Last(events) = "degrade"
    /\ trap.record.hfsr # 0

\* What the safe state freezes: the watchdog object, the log, the handlers'
\* positions, the diagnostic task and the application's last call.
CoreState == <<wdt, g_fault_log, g_fault_count, hist, diagTask, api, inits,
               trap.pc, trap.stack_frame>>

\* A reset: the volatile state is as after boot.
IsReset ==
    /\ sys' = SysNormal
    /\ trap' = NoTrap
    /\ irq' = 0
    /\ wdt' = Watchdog(WDT_DEFAULT_TIMEOUT_MS)
    /\ HW_WDT' = HwOff

\* C3: the safe state is terminal.  Once it is entered (by the Fatal branch of
\* the trap handler or by the watchdog's timeout handler) the mode stays safe
\* and no kick, start, append, read or clear happens until a reset; neither
\* handler returns to the code it interrupted.
C3_SafeStateIsTerminal ==
    [][sys.mode = "safe" =>
          \/ IsReset
          \/ /\ sys'.mode = "safe"
             /\ CoreState' = CoreState
             /\ irq = -1 => irq' = -1
             /\ irq' # 0 \/ irq = 0
      ]_vars

C3_Witness ==
    /\ sys = [mode |-> "safe", reason |-> "WatchdogTimeout"]
    /\ irq = -1
    /\ trap.pc = "halted"

\* C4: after more appends than the log holds (and no clear since), a read of
\* FAULT_LOG_MAX_ENTRIES records returns exactly that many, and they are the
\* most recently appended records, oldest first.
C4_ReadCapacityIsNewestWindow ==
    (/\ diagTask.state = "done"
     /\ diagTask.max_count = FAULT_LOG_MAX_ENTRIES
     /\ Len(hist) > FAULT_LOG_MAX_ENTRIES) =>
        /\ diagTask.ret = FAULT_LOG_MAX_ENTRIES
        /\ Len(diagTask.buffer) = FAULT_LOG_MAX_ENTRIES
        /\ \A k \in 1..FAULT_LOG_MAX_ENTRIES :
              diagTask.buffer[k] = hist[Len(hist) - FAULT_LOG_MAX_ENTRIES + k]

C4_Witness ==
    /\ diagTask.state = "done"
    /\ diagTask.max_count = FAULT_LOG_MAX_ENTRIES
    /\ Len(hist) = FAULT_LOG_MAX_ENTRIES + 2
    /\ diagTask.buffer[1].timestamp # diagTask.buffer[FAULT_LOG_MAX_ENTRIES].timestamp
    /\ diagTask.buffer[FAULT_LOG_MAX_ENTRIES - 1] # hist[1]
    /\ diagTask.buffer[1] # diagTask.buffer[2]

\* The slot the k-th entry of the last read came from.
SlotRead(k) ==
    g_fault_log[((g_fault_count - diagTask.ret + (k - 1)) % WordModulus)
                   % FAULT_LOG_MAX_ENTRIES]

\* The checksum stored in the slot is not the checksum of its other fields.
FailsVerification(slot) == slot.crc # crc32_calculate(slot)

\* C5: for every slot whose stored checksum differs from the checksum of its
\* other fields at read time, the read returns the corruption marker in that
\* position and not the slot's contents; every other slot is returned as stored.
C5_CorruptSlotIsMarked ==
    diagTask.state = "done" =>
        \A k \in 1..diagTask.ret :
            IF FailsVerification(SlotRead(k))
            THEN /\ diagTask.buffer[k].pc = CORRUPT_PC
                 /\ diagTask.buffer[k].timestamp = 0
                 /\ diagTask.buffer[k] # SlotRead(k)
            ELSE diagTask.buffer[k] = SlotRead(k)

C5_Witness ==
    /\ diagTask.state = "done"
    /\ diagTask.ret >= 2
    /\ \E k \in 1..diagTask.ret :
          /\ FailsVerification(SlotRead(k))
          /\ SlotRead(k).crc # 0
          /\ diagTask.buffer[k].pc = CORRUPT_PC
    /\ \E k \in 1..diagTask.ret : ~FailsVerification(SlotRead(k))

\* C6 as claimed: any bit set in the low 8 status bits classifies Fatal,
\* whatever the other groups hold.
C6_AnyMemoryBitIsFatal ==
    (class_ret # "none" /\ cfsr_arg % 256 # 0) => class_ret = FAULT_CLASS_FATAL

\* C7: classification follows a fixed priority over the whole word: a known
\* memory-access-violation bit decides first (Fatal); else a known bus-error bit
\* (instruction-bus error Fatal before precise/imprecise Degraded); else a known
\* usage-fault bit (undefined-instruction, invalid-state, invalid-PC Fatal before
\* divide-by-zero Recoverable).
C7_FixedPriority ==
    class_ret # "none" =>
        LET b(n)  == (cfsr_arg \div Pow2(n)) % 2 = 1
            mem   == b(0) \/ b(1)
            ibus  == b(8)
            dbus  == b(9) \/ b(10)
            ufat  == b(16) \/ b(17) \/ b(18)
            div   == b(24)
        IN  /\ mem => class_ret = FAULT_CLASS_FATAL
            /\ (~mem /\ ibus) => class_ret = FAULT_CLASS_FATAL
            /\ (~mem /\ ~ibus /\ dbus) => class_ret = FAULT_CLASS_DEGRADED
            /\ (~mem /\ ~ibus /\ ~dbus /\ ufat) => class_ret = FAULT_CLASS_FATAL
            /\ (~mem /\ ~ibus /\ ~dbus /\ ~ufat /\ div) =>
                  class_ret = FAULT_CLASS_RECOVERABLE

C7_Witness ==
    /\ class_ret = FAULT_CLASS_DEGRADED
    /\ BitSet(cfsr_arg, IMPRECISERR)
    /\ BitSet(cfsr_arg, UNDEFINSTR)
    /\ BitSet(cfsr_arg, DIVBYZERO)

\* A step of WDT_IRQHandler.
IrqMoves == irq # 0 /\ irq' # irq

\* C8: whenever the watchdog's timeout handler runs, whatever the state of the
\* Watchdog object, it first logs the Emergency diagnostic, then enters the
\* safe state for the watchdog-timeout reason, and it does not return to the
\* interrupted code: its only other way out is the reset.
C8_TimeoutAlwaysEscalates ==
    [][IrqMoves =>
          \/ /\ irq = 1
             /\ irq' = 2
             /\ diag' = <<DiagEntry("emergency", "WDT_TIMEOUT", 0)>>
             /\ sys' = sys
          \/ /\ irq = 2
             /\ irq' = -1
             /\ diag = <<DiagEntry("emergency", "WDT_TIMEOUT", 0)>>
             /\ diag' = diag
             /\ sys' = [mode |-> "safe", reason |-> "WatchdogTimeout"]
          \/ /\ irq = -1
             /\ sys.mode = "safe"
             /\ IsReset
      ]_vars

C8_Witness ==
    /\ irq = -1
    /\ ~wdt.m_started
    /\ wdt.m_kick_count = 0
    /\ HwEnabled
    /\ sys = [mode |-> "safe", reason |-> "WatchdogTimeout"]

\* A kick the armed watchdog accepted.
KickStep ==
    /\ wdt.m_started
    /\ api'.call = "watchdog_kick"
    /\ <<api, wdt, HW_WDT>>' # <<api, wdt, HW_WDT>>

\* The time since the previous confirmation (or since start), on the wrapping clock.
ElapsedNow == (now - wdt.m_last_kick_time) % WordModulus

\* C9: with expected interval timeout/2 and tolerance 10% of it (integer
\* division), a kick of the armed watchdog exactly timeout/2 after the previous
\* confirmation leaves the late-kick count alone and returns true; one that
\* comes timeout/2 + tolerance + 1 or later adds exactly one to the late-kick
\* count and returns false.
C9_LateKickBoundary ==
    [][KickStep =>
          LET half == wdt.m_timeout_ms \div 2
              tol  == (half * 10) \div 100
          IN  /\ wdt.m_timeout_ms \in 10..1000
              /\ ElapsedNow = half =>
                    /\ wdt'.m_late_kick_count = wdt.m_late_kick_count
                    /\ api'.ret = <<TRUE>>
              /\ ElapsedNow >= half + tol + 1 =>
                    /\ wdt'.m_late_kick_count = wdt.m_late_kick_count + 1
                    /\ api'.ret = <<FALSE>>
      ]_vars

C9_Witness ==
    /\ api.call = "watchdog_kick"
    /\ api.ret = <<FALSE>>
    /\ wdt.m_timeout_ms = 39
    /\ api.arg = 21
    /\ wdt.m_kick_count = 2
    /\ wdt.m_late_kick_count = 1

\* C10: every kick the armed watchdog accepts reloads the hardware countdown,
\* sets the last-confirmation time to the current time and adds exactly one to
\* the kick count, late or not; lateness shows only in the late-kick count and
\* in the value returned.
C10_KickAlwaysRefreshes ==
    [][KickStep =>
          /\ HW_WDT' = [HW_WDT EXCEPT !.reload = now]
          /\ wdt'.m_last_kick_time = now
          /\ wdt'.m_kick_count = wdt.m_kick_count + 1
          /\ wdt'.m_started
          /\ wdt'.m_timeout_ms = wdt.m_timeout_ms
          /\ wdt'.m_late_kick_count \in
                {wdt.m_late_kick_count, wdt.m_late_kick_count + 1}
          /\ (api'.ret = <<FALSE>>) <=>
                (wdt'.m_late_kick_count = wdt.m_late_kick_count + 1)
          /\ now' = now
      ]_vars

C10_Witness ==
    /\ api.call = "watchdog_kick"
    /\ api.ret = <<FALSE>>
    /\ wdt.m_late_kick_count = 1
    /\ wdt.m_kick_count = 1
    /\ wdt.m_last_kick_time = now
    /\ HW_WDT.reload = now
    /\ HW_WDT.reload < 100

\* A call of watchdog_start by the application.
StartStep ==
    /\ irq = 0 /\ irq' = 0
    /\ api'.call = "watchdog_start"
    /\ \/ api.call # "watchdog_start"
       \/ api.ret # api'.ret
       \/ <<diag, wdt, HW_WDT>>' # <<diag, wdt, HW_WDT>>

\* C11: start on a watchdog that is already armed is reported (the
\* duplicate-start diagnostic is emitted and false is returned) and changes
\* nothing: timeout, hardware configuration and countdown, last-kick time, kick
\* count, late-kick count and the armed flag stay as they were.
C11_DuplicateStartIsReportedNoOp ==
    [][(StartStep /\ wdt.m_started) =>
          /\ api'.ret = <<FALSE>>
          /\ diag' = <<DiagEntry("warn", "WDT_ALREADY_STARTED", 0)>>
          /\ wdt' = wdt
          /\ HW_WDT' = HW_WDT
          /\ now' = now
      ]_vars

C11_Witness ==
    /\ api.call = "watchdog_start"
    /\ api.ret = <<FALSE>>
    /\ diag = <<DiagEntry("warn", "WDT_ALREADY_STARTED", 0)>>
    /\ wdt.m_started
    /\ wdt.m_kick_count = 1
    /\ wdt.m_late_kick_count = 1
    /\ wdt.m_last_kick_time # now
    /\ wdt.m_timeout_ms = 39

\* The escalation steps the running/last trap has taken.
Escalations ==
    {k \in 1..Len(events) : events[k] \in {"resume", "degrade", "safe_state"}}

\* The handler has reached one of its ends: a return, the safe state or the reset.
HandlerEnded == trap.pc \in {"return", "halted", "reset"}

\* C12: every trap takes exactly one escalation step, the one its
\* classification of the captured status word calls for (Recoverable: resume,
\* Degraded: degrade, Fatal: safe state), whether the persistence layer queued
\* the flush, was unavailable or failed; until then the handler always has a
\* next step to take, so nothing the layer does holds the escalation back.
C12_EscalationIgnoresPersistence ==
    /\ HandlerEnded =>
          /\ Cardinality(Escalations) = 1
          /\ trap.fault_class = analyze_cfsr(trap.record.cfsr)
          /\ Last(events) =
                (CASE trap.fault_class = FAULT_CLASS_RECOVERABLE -> "resume"
                   [] trap.fault_class = FAULT_CLASS_DEGRADED -> "degrade"
                   [] trap.fault_class = FAULT_CLASS_FATAL -> "safe_state")
          /\ Noted("store_flush")
    /\ (~HandlerEnded /\ ~At("idle")) =>
          /\ Escalations = {}
          /\ ENABLED HandlerStep

C12_Witness ==
    /\ trap.pc = "halted"
    /\ nvm_flush = "failed"
    /\ trap.record.cfsr = Pow2(IBUSERR)
    /\ g_fault_count = 2
    /\ Last(events) = "safe_state"

\* How many times the running/last trap has taken step e.
Times(e) == Cardinality({k \in 1..Len(events) : events[k] = e})

\* A precise or imprecise bus error with no access violation and no
\* instruction-bus error.
BusErrorWord(w) ==
    /\ BitSet(w, PRECISERR) \/ BitSet(w, IMPRECISERR)
    /\ ~BitSet(w, IACCVIOL) /\ ~BitSet(w, DACCVIOL) /\ ~BitSet(w, IBUSERR)

\* C13: a trap whose status word has a precise or imprecise bus-error bit and
\* no access-violation or instruction-bus-error bit is classified Degraded,
\* appends exactly one record (the count goes up by one), enters degraded mode
\* exactly once and returns; the safe state and the reset are never reached.
C13_BusErrorDegradesOnce ==
    (trap.pc \notin {"idle", "capture"} /\ BusErrorWord(trap.record.cfsr)) =>
        /\ analyze_cfsr(trap.record.cfsr) = FAULT_CLASS_DEGRADED
        /\ trap.fault_class \in {"none", FAULT_CLASS_DEGRADED}
        /\ Noted("classify") => trap.fault_class = FAULT_CLASS_DEGRADED
        /\ Times("safe_state") = 0 /\ Times("resume") = 0
        /\ trap.pc \notin {"halted", "reset"}
        /\ sys.mode # "safe"
        /\ Times("store_count") <= 1 /\ Times("degrade") <= 1
        /\ g_fault_count = (trap.base + Times("store_count")) % WordModulus
        /\ trap.stack_frame[6] = trap.record.pc
        /\ trap.pc = "return" =>
              /\ Times("store_count") = 1
              /\ Last(hist) = g_fault_log[StoreIndex(trap.base)]
              /\ Last(hist).cfsr = trap.record.cfsr
              /\ Times("degrade") = 1
              /\ sys = [mode |-> "degraded", reason |-> "BUS_FAULT"]

C13_Witness ==
    /\ trap.pc = "return"
    /\ BitSet(trap.record.cfsr, IMPRECISERR)
    /\ BitSet(trap.record.cfsr, UNDEFINSTR)
    /\ trap.base = 1
    /\ g_fault_count = 2
    /\ Times("degrade") = 1

\* The time since the hardware countdown was last reloaded, by start or by a kick.
Gap == (now - HW_WDT.reload) % WordModulus

\* timeout/2 plus the tolerance of 10% of it, in integer division.
GapLimit == (wdt.m_timeout_ms \div 2) + ((wdt.m_timeout_ms \div 2) * 10) \div 100

\* The hardware raises the timeout interrupt.
TimeoutFires == irq = 0 /\ irq' = 1

\* C14: for the armed watchdog with timeout T, a kick that comes within T/2
\* plus tolerance of the previous one (or of start) is never counted late, so
\* the late-kick count stays 0 while every gap is that short, and the timeout
\* interrupt does not fire within such a gap; it fires only after a full T
\* without a kick, then it does fire, once, and the safe state follows.
C14_OnTimeKicksKeepWatchdogQuiet ==
    /\ [](wdt.m_started => (wdt.m_kick_count = 0 => wdt.m_late_kick_count = 0))
    /\ [][(KickStep /\ Gap <= GapLimit) =>
             /\ wdt'.m_late_kick_count = wdt.m_late_kick_count
             /\ api'.ret = <<TRUE>>]_vars
    /\ []((wdt.m_started /\ Gap <= GapLimit) => (irq = 0 /\ ~Expired))
    /\ [][TimeoutFires => (wdt.m_started /\ Gap >= wdt.m_timeout_ms)]_vars
    /\ [][irq = -1 => (irq' = -1 \/ IsReset)]_vars
    /\ (wdt.m_started /\ Gap >= wdt.m_timeout_ms)
          ~> (irq = -1 /\ sys = [mode |-> "safe", reason |-> "WatchdogTimeout"])

C14_Witness ==
    /\ irq = -1
    /\ sys = [mode |-> "safe", reason |-> "WatchdogTimeout"]
    /\ wdt.m_started
    /\ wdt.m_timeout_ms = 100
    /\ wdt.m_kick_count = 2
    /\ wdt.m_late_kick_count = 0
    /\ Gap = 100

\* The number of records the log holds: what was appended, up to its capacity.
Stored == IF Len(hist) < FAULT_LOG_MAX_ENTRIES THEN Len(hist) ELSE FAULT_LOG_MAX_ENTRIES

\* C15 as claimed: for every max_count and every number of appends a read
\* returns exactly min(max_count, stored) entries, stored never exceeding the
\* capacity, and they are the newest stored records, each once, oldest first.
C15_ReadReturnsMinOfStored ==
    diagTask.state = "done" =>
        /\ diagTask.ret = ReadCount(Stored, diagTask.max_count)
        /\ diagTask.ret <= FAULT_LOG_MAX_ENTRIES
        /\ \A k \in 1..diagTask.ret :
              diagTask.buffer[k] = hist[Len(hist) - diagTask.ret + k]

\* C16 as claimed: the entry a read returns for a slot that fails verification
\* is the same whatever the caller's buffer held before the call, and it cannot
\* be taken for a valid record: it does not itself pass verification.
C16_MarkerIsUnambiguous ==
    diagTask.state = "done" =>
        \A k \in 1..diagTask.ret :
            FailsVerification(SlotRead(k)) =>
                /\ \A old \in BufferFills :
                      ReadEntry(SlotRead(k), old) = diagTask.buffer[k]
                /\ FailsVerification(diagTask.buffer[k])

\* C17: a read of the fault log preempted at any point by fault-trap appends
\* returns a contiguous, chronologically ordered window of appended records:
\* no entry is a corruption marker, each entry is the record of the append it
\* was copied from, and consecutive entries come from consecutive appends.
C17_PreemptedReadIsOrderedWindow ==
    (diagTask.state = "done" /\ "from" \in DOMAIN diagTask) =>
        /\ \A k \in 1..diagTask.ret :
              /\ diagTask.from[k] >= 1
              /\ diagTask.buffer[k] = hist[diagTask.from[k]]
        /\ \A k \in 1..(diagTask.ret - 1) :
              diagTask.from[k + 1] = diagTask.from[k] + 1

\* The log as fault_clear_log leaves it: nothing counted, every slot's checksum
\* zeroed.
Cleared ==
    /\ g_fault_count = 0
    /\ \A i \in 0..(FAULT_LOG_MAX_ENTRIES - 1) : g_fault_log[i].crc = 0

\* C18: fault_clear_log leaves every slot invalidated (its checksum zeroed) and
\* nothing counted; the log stays so until the fault handler stores a record;
\* while it is so, fault_get_log returns zero records for every max_count and
\* leaves the buffer alone; and the log only loses records in a step that is
\* the explicit call of fault_clear_log, never in a step of the fault handler,
\* of the watchdog or of the reset.
C18_ClearEmptiesAndIsExplicit ==
    /\ [][ClearLog => Cleared']_vars
    /\ [][(Cleared /\ ~Cleared') => (StoreCrc \/ StoreCount)]_vars
    /\ [](Cleared =>
            /\ \A max_count \in 0..MaxRead :
                  LET buffer == [k \in 1..max_count |-> StaleRecord]
                      out == fault_get_log(g_fault_log, g_fault_count, buffer, max_count)
                  IN  out.ret = 0 /\ out.buffer = buffer
            /\ diagTask.state = "done" => diagTask.ret = 0)
    /\ [][(g_fault_count' < g_fault_count \/ Len(hist') < Len(hist)) => ClearLog]_vars

\* A record was appended (the handler degraded the system after storing it),
\* the log was cleared, and a read of one record has returned.
C18_Witness ==
    /\ Cleared
    /\ sys.mode = "degraded"
    /\ g_fault_log[0].pc # 0
    /\ diagTask.state = "done"
    /\ diagTask.max_count = 1
    /\ diagTask.ret = 0
    /\ wdt.m_started

\* C19: once a trap is classified Recoverable the handler takes the resume
\* step exactly once and no other: the stacked pc goes from the pc of the
\* faulting instruction to that pc plus 2 (the width of a 16-bit Thumb
\* instruction), the other stacked registers stay, degraded mode, the safe
\* state and the reset are not entered, and the handler returns; the record
\* appended before holds the pc of the faulting instruction.
C19_RecoverableSkipsOneInstruction ==
    (trap.pc # "idle" /\ trap.fault_class = FAULT_CLASS_RECOVERABLE) =>
        /\ Times("degrade") = 0 /\ Times("safe_state") = 0
        /\ trap.pc \in {"clear_cfsr", "clear_hfsr", "act", "return"}
        /\ sys.mode # "safe"
        /\ Times("store_count") = 1
        /\ Last(hist) = g_fault_log[StoreIndex(trap.base)]
        /\ Last(hist).pc = trap.record.pc
        /\ Last(hist).pc \in {f[6] : f \in Frames}
        /\ \A i \in 0..7 :
              trap.stack_frame[i] =
                 IF i = 6 /\ trap.pc = "return"
                 THEN (Last(hist).pc + 2) % WordModulus
                 ELSE IF i = 6 THEN Last(hist).pc
                 ELSE IF i = 4 THEN Last(hist).r12
                 ELSE IF i = 5 THEN Last(hist).lr
                 ELSE IF i = 7 THEN Last(hist).psr
                 ELSE Last(hist)[<<"r0", "r1", "r2", "r3">>[i + 1]]
        /\ Times("resume") = (IF trap.pc = "return" THEN 1 ELSE 0)
        /\ trap.pc = "return" => ENABLED TrapReturn

C19_Witness ==
    /\ trap.pc = "return"
    /\ trap.fault_class = FAULT_CLASS_RECOVERABLE
    /\ Times("resume") = 1
    /\ trap.base = 1
    /\ trap.stack_frame[6] = FrameB[6] + 2
    /\ Last(hist).pc = FrameB[6]
    /\ hist[1].pc = FrameA[6]

\* A call of tick() on the running monitor.
TickStep == ecu'.ticks = ecu.ticks + 1

\* The reading is at or below the overvoltage boundary but has not come back
\* from it by the hysteresis.
InHighMargin(m, reading) ==
    /\ reading <= m.config_.voltage.overvolt_mv
    /\ reading > m.config_.voltage.overvolt_mv - m.config_.voltage.hysteresis_mv

\* The levels at which a warning band below the overvoltage boundary may start.
WarningHighLevels == {15000, 15800}

\* C20: the overvoltage fault becomes active only on a tick whose reading is
\* above the overvoltage boundary; once active it stays active on every tick
\* whose reading has not come back below the boundary by the hysteresis,
\* wherever the warning band starts; and a tick whose reading lies inside the
\* hysteresis margin neither raises nor clears it, so a reading oscillating
\* there appends no further record.
C20_OvervoltageClearsOnlyPastHysteresis ==
    [][TickStep =>
          LET v == ecu'.current_voltage_mv_
              t == ecu.config_.voltage
              was == Overvoltage \in ecu.active_faults_
              is == Overvoltage \in ecu'.active_faults_
          IN  /\ (~was /\ is) => v > t.overvolt_mv
              /\ (was /\ v > t.overvolt_mv - t.hysteresis_mv) => is
              /\ \A w \in WarningHighLevels :
                    (was /\ w < v /\ InHighMargin(ecu, v)) => is
              /\ InHighMargin(ecu, v) =>
                    /\ is <=> was
                    /\ ecu'.fault_log_ = ecu.fault_log_
              /\ (was /\ ~is) => v <= t.overvolt_mv - t.hysteresis_mv]_vars

\* The fault was raised, and after three ticks is still active on a reading that
\* is back under the boundary, inside the hysteresis margin: it was logged once.
C20_Witness ==
    /\ ecu.running_
    /\ ecu.ticks = 3
    /\ Overvoltage \in ecu.active_faults_
    /\ ecu.current_voltage_mv_ = 15501
    /\ InHighMargin(ecu, ecu.current_voltage_mv_)
    /\ Len(ecu.fault_log_) = 1
    /\ ecu.fault_log_[1] = [code |-> Overvoltage, severity |-> Critical, data |-> 16001]

\* A call of acknowledge_fault.
AckStep == ecu'.call.name = "acknowledge_fault"

\* C21: acknowledge_fault with a fault code removes that code from the active
\* set and no other; with NoFault it empties the set; either way the fault log
\* is as before (same records, so same count and head), get_fault_log returns
\* the same records for every max_count, and no other member changes.
C21_AcknowledgeRemovesOnlyMatching ==
    [][AckStep =>
          LET code == ecu'.call.arg
          IN  /\ code # NoFault => ecu'.active_faults_ = ecu.active_faults_ \ {code}
              /\ code = NoFault => ecu'.active_faults_ = {}
              /\ ecu'.fault_log_ = ecu.fault_log_
              /\ \A max_count \in 0..(Len(ecu.fault_log_) + 1) :
                    get_fault_log(ecu', max_count) = get_fault_log(ecu, max_count)
              /\ ecu' = [ecu EXCEPT !.active_faults_ = ecu'.active_faults_,
                                    !.call = ecu'.call]]_vars

\* Two faults were active and logged; the overvoltage was acknowledged, the
\* overtemperature shutdown is still active and both records are in the log.
C21_Witness ==
    /\ ecu.call.name = "acknowledge_fault"
    /\ ecu.call.arg = Overvoltage
    /\ ecu.active_faults_ = {OvertemperatureShut}
    /\ Len(ecu.fault_log_) = 2
    /\ ecu.fault_log_[1].code = Overvoltage
    /\ get_fault_log(ecu, 1) = <<[code |-> OvertemperatureShut, severity |-> Critical,
                                 data |-> 0]>>

\* A call of tick() or check_now().
CheckStep == ecu'.call.name \in {"tick", "check_now"}

\* The records the step has appended to the monitor's fault log.
NewRecords ==
    {ecu'.fault_log_[k] : k \in (Len(ecu.fault_log_) + 1)..Len(ecu'.fault_log_)}

\* The fault is active after the step, and was logged by it with the severity
\* if it was not active before.
RaisedAs(code, severity) ==
    /\ code \in ecu'.active_faults_
    /\ code \notin ecu.active_faults_ =>
          \E r \in NewRecords : r.code = code /\ r.severity = severity

\* C22: on every tick() and check_now(), each sub-check whose reading is beyond
\* its shutdown level (the voltage boundaries, the temperature shutdown levels)
\* raises the Critical fault of that level and invokes the escalation
\* controller, once per such sub-check and again on every later call; a
\* temperature beyond a warning level but not beyond the shutdown level raises
\* the Warning fault of that level, no Critical temperature fault and no
\* escalation; and every record of the log has the severity of its code.
C22_ShutdownIsCriticalWarningIsNot ==
    /\ [][CheckStep =>
            LET mv == ecu'.current_voltage_mv_
                c == ecu'.current_temperature_c_
                v == ecu.config_.voltage
                t == ecu.config_.temp
                high == mv > v.overvolt_mv
                low == mv < v.undervolt_mv
                hot == c > t.shutdown_high_c
                cold == c < t.shutdown_low_c
                warm == c > t.warning_high_c /\ ~hot
                cool == c < t.warning_low_c /\ ~cold
                N(b) == IF b THEN 1 ELSE 0
            IN  /\ high => RaisedAs(Overvoltage, Critical)
                /\ low => RaisedAs(Undervoltage, Critical)
                /\ hot => RaisedAs(OvertemperatureShut, Critical)
                /\ cold => RaisedAs(UndertemperatureShut, Critical)
                /\ warm => RaisedAs(OvertemperatureWarn, Warning)
                /\ cool => RaisedAs(UndertemperatureWarn, Warning)
                /\ (warm \/ cool) =>
                      /\ ecu'.active_faults_ \cap
                            {OvertemperatureShut, UndertemperatureShut} = {}
                      /\ \A r \in NewRecords :
                            r.code \in TemperatureCodes => r.severity = Warning
                /\ ecu'.escalated = N(high \/ low) + N(hot \/ cold)]_vars
    /\ [](\A k \in 1..Len(ecu.fault_log_) :
             ecu.fault_log_[k].severity =
                IF ecu.fault_log_[k].code \in {OvertemperatureWarn, UndertemperatureWarn}
                THEN Warning ELSE Critical)

\* The second call in a row with the voltage above its boundary and the
\* temperature beyond the high shutdown level: both faults were logged by the
\* first, both sub-checks have escalated again.
C22_Witness ==
    /\ ecu.ticks + ecu.checks = 2
    /\ ecu.call.name = "check_now"
    /\ ecu.current_voltage_mv_ > ecu.config_.voltage.overvolt_mv
    /\ ecu.current_temperature_c_ > ecu.config_.temp.shutdown_high_c
    /\ ecu.escalated = 2
    /\ ecu.active_faults_ = {Overvoltage, OvertemperatureShut}
    /\ Len(ecu.fault_log_) = 2

\* A call of watchdog_kick on a watchdog that is not armed.
RejectedKickStep ==
    /\ ~wdt.m_started
    /\ api'.call = "watchdog_kick"
    /\ api' # api

\* C23: a kick of a watchdog that is not armed is rejected: it returns false,
\* leaves the hardware countdown as it was (no reload), and changes neither
\* the last-kick time, the kick count nor the late-kick count; nothing is
\* logged and the watchdog stays unarmed.
C23_KickWhileNotArmedIsRejected ==
    [][RejectedKickStep =>
          /\ api'.ret = <<FALSE>>
          /\ HW_WDT' = HW_WDT
          /\ wdt'.m_last_kick_time = wdt.m_last_kick_time
          /\ wdt'.m_kick_count = wdt.m_kick_count
          /\ wdt'.m_late_kick_count = wdt.m_late_kick_count
          /\ wdt' = wdt
          /\ diag' = <<>>
          /\ now' = now
      ]_vars

\* A kick was rejected while the hardware countdown, armed before the
\* watchdog was set up again, keeps running from its earlier reload.
C23_Witness ==
    /\ api.call = "watchdog_kick"
    /\ api.ret = <<FALSE>>
    /\ ~wdt.m_started
    /\ wdt.m_kick_count = 0
    /\ HwEnabled
    /\ HW_WDT.reload < now

\* The narrow recoverable subset: divide-by-zero is reported and none of the
\* access-violation, decoded bus-error, undefined-instruction, invalid-state
\* and invalid-PC bits is.
NarrowRecoverable(w) ==
    /\ BitSet(w, DIVBYZERO)
    /\ \A b \in {IACCVIOL, DACCVIOL, IBUSERR, PRECISERR, IMPRECISERR,
                  UNDEFINSTR, INVSTATE, INVPC} : ~BitSet(w, b)

\* The handler leaves the switch.
SwitchStep == At("act") /\ trap'.pc # "act"

\* C24: the handler advances the stacked pc and returns without escalation
\* only when the captured status word has the divide-by-zero bit set and none
\* of IACCVIOL, DACCVIOL, IBUSERR, PRECISERR, IMPRECISERR, UNDEFINSTR, INVSTATE
\* and INVPC; for every other word it enters the degraded mode or the safe
\* state and leaves the stacked pc alone.
C24_ResumeOnlyForNarrowSubset ==
    [][SwitchStep =>
            LET w == trap.record.cfsr
            IN  /\ NarrowRecoverable(w) <=>
                       /\ trap'.pc = "return"
                       /\ trap'.stack_frame[6] = (trap.stack_frame[6] + 2) % WordModulus
                       /\ sys' = sys
                       /\ Last(events') = "resume"
                /\ ~NarrowRecoverable(w) =>
                       /\ trap'.stack_frame = trap.stack_frame
                       /\ Last(events') \in {"degrade", "safe_state"}
                       /\ sys'.mode \in {"degraded", "safe"}
                       /\ sys'.mode = "degraded" <=> trap'.pc = "return"
         ]_vars

\* The handler resumed after a divide-by-zero reported together with every
\* undecoded bit that is probed.
C24_Witness ==
    /\ trap.pc = "return"
    /\ Last(events) = "resume"
    /\ trap.record.cfsr = WordOf(UndecodedBits \cup {DIVBYZERO})
    /\ NarrowRecoverable(trap.record.cfsr)
    /\ trap.stack_frame[6] = FrameA[6] + 2
    /\ sys = SysNormal

\* The position of the first event e in the running handler's trace (0: none).
FirstAt(e) ==
    IF Noted(e) THEN CHOOSE k \in 1..Len(events) :
                        events[k] = e /\ \A j \in 1..(k - 1) : events[j] # e
    ELSE 0

\* The running handler has counted its record, and one nested trap appended
\* after the handler had copied its record and before it counted it.
AppendWasPreempted ==
    /\ Noted("store_count")
    /\ Times("nested") = 1
    /\ FirstAt("store_copy") < FirstAt("nested")
    /\ FirstAt("nested") < FirstAt("store_count")

\* C25: when a nested trap appends while the append of the preempted handler
\* is in progress, the two records go to distinct slots, each is stored with
\* the checksum of its own contents, and the counter has grown by two: neither
\* record is lost or overwritten.
C25_NestedAppendsKeepBothRecords ==
    AppendWasPreempted =>
       LET outer == [trap.record EXCEPT !.crc = crc32_calculate(trap.record)]
           inner == hist[Len(hist) - 1]
       IN  /\ g_fault_count = (trap.base + 2) % WordModulus
           /\ inner.crc = crc32_calculate(inner)
           /\ \E a, b \in 0..(FAULT_LOG_MAX_ENTRIES - 1) :
                  /\ a # b
                  /\ g_fault_log[a] = outer
                  /\ g_fault_log[b] = inner

\* The records the counter counts as stored, capped at the capacity.
Counted == IF g_fault_count < FAULT_LOG_MAX_ENTRIES THEN g_fault_count
           ELSE FAULT_LOG_MAX_ENTRIES

\* C26: when fault_clear_log has finished, whatever traps appended while it
\* ran, every record the counter counts as stored is read back as the record
\* that was appended, never as a corruption marker: the counter is the number
\* of appends since it was reset and the counted slots hold those appends
\* with their checksums.
C26_PreemptedClearKeepsAppendedRecords ==
    diagTask.state = "cleared" =>
       /\ g_fault_count = Len(hist)
       /\ \A n \in 0..Counted :
             LET out == fault_get_log(g_fault_log, g_fault_count,
                                      [k \in 1..n |-> StaleRecord], n)
             IN  /\ out.ret = n
                 /\ \A k \in 1..n :
                       /\ out.buffer[k].pc # CORRUPT_PC
                       /\ out.buffer[k] = hist[Len(hist) - n + k]

\* The slot whose index is the counter modulo the capacity.
NextSlot == g_fault_count % FAULT_LOG_MAX_ENTRIES

\* C27: the counter grows by exactly one per append (at the append's counting
\* step and nowhere else), shrinks only in fault_clear_log, which sets it to
\* zero, and is not capped at the capacity: it always equals the number of
\* appends since the last clear. An append writes only the slot whose index is
\* the counter before the append modulo the capacity, so on a full log it
\* overwrites the oldest stored record and leaves every other slot alone.
C27_CounterCountsAppendsSlotIsCounterModCapacity ==
    /\ [][
           /\ g_fault_count' # g_fault_count =>
                \/ Notes("store_count") /\ g_fault_count' = g_fault_count + 1
                \/ ClearLog /\ g_fault_count' = 0
           /\ Notes("store_count") =>
                /\ g_fault_count' = g_fault_count + 1
                /\ Times("store_count") = 0
                /\ g_fault_log[NextSlot] =
                      [trap.record EXCEPT !.crc = crc32_calculate(trap.record)]
           /\ g_fault_log' # g_fault_log =>
                \/ ClearLog
                \/ /\ Notes("store_copy") \/ Notes("store_crc")
                   /\ \A i \in 0..(FAULT_LOG_MAX_ENTRIES - 1) :
                         i # NextSlot => g_fault_log'[i] = g_fault_log[i]
           /\ Notes("store_copy") =>
                /\ g_fault_log'[NextSlot] = trap.record
                /\ \/ g_fault_count < FAULT_LOG_MAX_ENTRIES
                   \/ g_fault_log[NextSlot] =
                         hist[g_fault_count - FAULT_LOG_MAX_ENTRIES + 1]
         ]_vars
    /\ [](g_fault_count = Len(hist))

\* The seventeenth append since the last clear has been counted: it replaced
\* the first record, which differs from it, in slot 0, and the second record is
\* still in slot 1.
C27_Witness ==
    /\ g_fault_count = FAULT_LOG_MAX_ENTRIES + 1
    /\ Last(events) = "store_count"
    /\ g_fault_log[0] = hist[FAULT_LOG_MAX_ENTRIES + 1]
    /\ hist[FAULT_LOG_MAX_ENTRIES + 1] # hist[1]
    /\ g_fault_log[1] = hist[2]
    /\ g_fault_log[1] # g_fault_log[0]

\* The index of the slot the k-th entry of the last read came from.
ReadSlot(k) ==
    ((g_fault_count - diagTask.ret + (k - 1)) % WordModulus) % FAULT_LOG_MAX_ENTRIES

\* C28: round trip. The record an append counts is the captured record, field
\* by field, with the checksum of those fields; and a read returns, for every
\* slot it covers (none was overwritten since, cleared or corrupted), an entry
\* whose every field other than the checksum equals the field of the record
\* appended to that slot and whose checksum is the checksum of its other
\* fields, never the corruption marker.
C28_AppendReadRoundTrip ==
    /\ [][Notes("store_count") =>
            /\ Len(hist') = Len(hist) + 1
            /\ \A j \in 1..Len(DataFields) :
                  Last(hist')[DataFields[j]] = trap.record[DataFields[j]]
            /\ Last(hist').crc = crc32_calculate(trap.record)
            /\ trap.record = CapturedRecord(trap.stack_frame, SCB, trap.record.timestamp)
         ]_vars
    /\ [](diagTask.state = "done" =>
            \A k \in 1..diagTask.ret :
               LET n     == SlotAppend(ReadSlot(k))
                   entry == diagTask.buffer[k]
               IN  /\ n > Len(hist) - FAULT_LOG_MAX_ENTRIES
                   /\ n > 0
                   /\ \A j \in 1..Len(DataFields) :
                         entry[DataFields[j]] = hist[n][DataFields[j]]
                   /\ entry.crc = crc32_calculate(entry)
                   /\ entry.crc = hist[n].crc)

\* Two of three appended records were read back; the second entry is the
\* last append, with the registers of its stacked frame and a checksum that is
\* not the captured one.
C28_Witness ==
    /\ diagTask.state = "done"
    /\ diagTask.max_count = 2
    /\ diagTask.ret = 2
    /\ Len(hist) = 3
    /\ diagTask.buffer[1] = hist[2]
    /\ diagTask.buffer[2] = hist[3]
    /\ \E c \in source :
          /\ diagTask.buffer[2].pc = c.frame[6]
          /\ diagTask.buffer[2].r0 = c.frame[0]
          /\ diagTask.buffer[2].cfsr = c.cfsr
    /\ diagTask.buffer[2].timestamp = 1
    /\ diagTask.buffer[1].timestamp = 0
    /\ diagTask.buffer[2].crc = crc32_calculate(diagTask.buffer[2])
    /\ diagTask.buffer[2].crc # 0

\* A call of watchdog_init.
InitStep == api'.call = "watchdog_init" /\ inits' = inits + 1

\* The timeout the constructor is given by watchdog_init(arg).
Requested(arg) == IF arg = 0 THEN WDT_DEFAULT_TIMEOUT_MS ELSE arg

InvalidTimeoutLogged(d, t) ==
    \E k \in 1..Len(d) : d[k] = DiagEntry("error", "WDT_INVALID_TIMEOUT", t)

\* C29: the timeout in effect is always within 10..1000 ms. A watchdog
\* constructed with a timeout outside that range logs the invalid-timeout
\* diagnostic with the rejected value and uses 100 ms; constructed with a
\* timeout inside the range it keeps the value and logs no such diagnostic;
\* and start, kick and get_stats never change the timeout (get_stats reports it).
C29_TimeoutStaysInRange ==
    /\ [](wdt.m_timeout_ms \in 10..1000)
    /\ [][InitStep =>
            LET t == Requested(api'.arg)
            IN  /\ (t < 10 \/ t > 1000) =>
                      /\ wdt'.m_timeout_ms = 100
                      /\ InvalidTimeoutLogged(diag', t)
                /\ t \in 10..1000 =>
                      /\ wdt'.m_timeout_ms = t
                      /\ \A v \in {t, api'.arg} : ~InvalidTimeoutLogged(diag', v)
         ]_vars
    /\ [][wdt'.m_timeout_ms # wdt.m_timeout_ms => InitStep]_vars
    /\ [](api.call = "get_stats" => api.arg = wdt.m_timeout_ms)

\* watchdog_init(1001) on a watchdog that had been started: the value was
\* rejected with the diagnostic and 100 ms is in effect.
C29_Witness ==
    /\ api.call = "watchdog_init"
    /\ api.arg = 1001
    /\ inits = 1
    /\ wdt.m_timeout_ms = WDT_DEFAULT_TIMEOUT_MS
    /\ InvalidTimeoutLogged(diag, 1001)
    /\ diag[Len(diag)] = DiagEntry("info", "WDT_INIT", 1001)
    /\ HwEnabled
    /\ ~wdt.m_started

\* fault_handler_common has reached a return or the safe-state step.
HandlerDone == trap.pc \in {"return", "halted", "reset"}

\* The trace of the running handler is the statements of the handler in
\* program order followed by one branch of the switch.
FixedTrace ==
    /\ Len(events) <= Len(HandlerOrder)
    /\ \A k \in 1..Len(events) :
          IF k < Len(HandlerOrder) THEN events[k] = HandlerOrder[k]
          ELSE events[k] \in {"resume", "degrade", "safe_state"}

\* C30: a handler that has been entered completes without waiting. Every run
\* of fault_handler_common, for any class of status word and any number of
\* records stored, reaches a return or the safe-state step (unless the watchdog
\* interrupt takes the processor to the safe state first), after the same
\* fixed sequence of statements, in which the append is four statements; and
\* every run of WDT_IRQHandler reaches the safe state in two statements.
C30_HandlersCompleteInBoundedSteps ==
    /\ (trap.pc = "capture") ~> (HandlerDone \/ sys.mode = "safe")
    /\ (irq = 1) ~> (irq \in {0, -1} /\ sys.mode = "safe")
    /\ [](FixedTrace)
    /\ [](HandlerDone => Len(events) = Len(HandlerOrder))
    /\ [](Noted("store_flush") =>
            FirstAt("store_flush") - FirstAt("store_copy") = 3)
    /\ [][irq' # irq => irq' \in {irq + 1, -1, 0} /\ irq <= Len(IrqOrder) + 1]_vars

\* The handler returned from its seventeenth run on a log that has wrapped,
\* after the nine statements of every run, with the watchdog countdown running.
C30_Witness ==
    /\ trap.pc = "return"
    /\ g_fault_count = FAULT_LOG_MAX_ENTRIES + 1
    /\ Len(events) = Len(HandlerOrder)
    /\ Last(events) = "degrade"
    /\ HwEnabled
    /\ irq = 0

\* The positions of the handler after its write to SCB->CFSR.
CfsrCleared == trap.pc \in {"clear_hfsr", "act", "return", "halted"}

\* C31: the handler clears exactly the status bits it captured. The capture
\* reads SCB->CFSR and SCB->HFSR as they are at that step; the step that
\* writes SCB->CFSR (SCB->HFSR) leaves every captured bit of the register clear
\* and every other bit as it was, and from that step to the end of the handler
\* a bit that was latched while the handler ran and is not in the record is
\* still set, so the next trap captures it.
C31_ClearsExactlyTheCapturedBits ==
    /\ [][
          /\ (At("capture") /\ trap'.pc = After("capture"))
                => (trap'.record.cfsr = SCB.CFSR /\ trap'.record.hfsr = SCB.HFSR)
          /\ (At("clear_cfsr") /\ trap'.pc = After("clear_cfsr"))
                => \A b \in 0..29 :
                      BitSet(SCB'.CFSR, b)
                        <=> (BitSet(SCB.CFSR, b) /\ ~BitSet(trap.record.cfsr, b))
          /\ (At("clear_hfsr") /\ trap'.pc = After("clear_hfsr"))
                => \A b \in 0..29 :
                      BitSet(SCB'.HFSR, b)
                        <=> (BitSet(SCB.HFSR, b) /\ ~BitSet(trap.record.hfsr, b))
       ]_vars
    /\ [](CfsrCleared
            => \A b \in 0..29 :
                  /\ BitSet(trap.record.cfsr, b) => ~BitSet(SCB.CFSR, b)
                  /\ (b \in LatchBits /\ Noted(LatchNote(b))
                        /\ ~BitSet(trap.record.cfsr, b)) => BitSet(SCB.CFSR, b))

\* A handler has cleared the precise bus error it captured, and the stacking
\* error latched after the capture is still set in SCB->CFSR.
C31_Witness ==
    /\ trap.pc = "act"
    /\ BitSet(trap.record.cfsr, PRECISERR)
    /\ ~BitSet(trap.record.cfsr, 12)
    /\ Noted("latch_stacking")
    /\ SCB.CFSR = Pow2(12)

\* C32: the armed flag of the supervisor always agrees with the hardware timer:
\* in every reachable state HW_WDT is enabled exactly when m_started is set, and
\* no call of kick returns false while the hardware countdown is running.
C32_ArmedFlagAgreesWithHardware ==
    /\ HwEnabled <=> wdt.m_started
    /\ (api.call = "kick" /\ HwEnabled) => api.ret # <<FALSE>>

\* The time that has passed since the last kick: the gap that, added to the last
\* kick time, gives the clock's reading (the hardware countdown bounds it).
TrueGap ==
    CHOOSE g \in 0..WDT_MAX_TIMEOUT_MS :
        (wdt.m_last_kick_time + g) % WordModulus = now

\* Clock readings and gaps around the wraparound of the word.
WrapTimes == {0, WordModulus - 30, WordModulus - 1}

WrapGaps(limit) == {0, limit, limit + 1, WDT_MAX_TIMEOUT_MS, WordModulus - 1}

\* C33: the lateness decision of kick is right across the wraparound of the
\* millisecond clock: a kick of the armed watchdog whose true gap since the last
\* kick is at most timeout/2 plus the tolerance is not counted late and returns
\* true, one whose gap is larger is counted late once and returns false, also
\* when the clock reads less than the last kick time; as a function, for every
\* last kick time and every gap below the modulus of the word.
C33_LatenessIsRightAcrossWraparound ==
    [][KickStep =>
          LET limit == wdt.m_timeout_ms \div 2 + ((wdt.m_timeout_ms \div 2) * 10) \div 100
          IN  /\ TrueGap <= limit =>
                    /\ wdt'.m_late_kick_count = wdt.m_late_kick_count
                    /\ api'.ret = <<TRUE>>
              /\ TrueGap > limit =>
                    /\ wdt'.m_late_kick_count = wdt.m_late_kick_count + 1
                    /\ api'.ret = <<FALSE>>
              /\ wdt'.m_last_kick_time = now
              /\ \A last \in WrapTimes, g \in WrapGaps(limit) :
                    LET w == [wdt EXCEPT !.m_last_kick_time = last]
                        out == kick(w, HW_WDT, (last + g) % WordModulus)
                    IN  /\ out.ret = (g <= limit)
                        /\ out.wdt.m_late_kick_count
                             = wdt.m_late_kick_count + (IF g <= limit THEN 0 ELSE 1)
      ]_vars

\* The watchdog was started 30 ms before the clock wrapped and kicked 56 ms
\* later, at the reading 26: the kick was counted late.
C33_Witness ==
    /\ api.call = "watchdog_kick"
    /\ api.ret = <<FALSE>>
    /\ api.arg = 56
    /\ wdt.m_timeout_ms = 100
    /\ wdt.m_last_kick_time = 26
    /\ now = 26
    /\ wdt.m_kick_count = 1
    /\ wdt.m_late_kick_count = 1

\* The stacked frame as the capture at the head of the handler read it.
FrameAsCaptured ==
    trap.stack_frame = [i \in 0..7 |->
        <<trap.record.r0, trap.record.r1, trap.record.r2, trap.record.r3,
          trap.record.r12, trap.record.lr, trap.record.pc, trap.record.psr>>[i + 1]]

\* C34: on the Degraded path the handler leaves the stacked frame as it found
\* it (the stacked pc is not advanced), enters degraded mode and returns to the
\* interrupted code; the only step of any handler that changes the stacked
\* frame is the Recoverable case, which changes the stacked pc alone.
C34_DegradedPathKeepsTheFrame ==
    /\ [][
          /\ (trap.pc # "idle" /\ trap'.pc # "idle"
                /\ trap'.stack_frame # trap.stack_frame)
                => /\ At("act")
                   /\ trap.fault_class = FAULT_CLASS_RECOVERABLE
                   /\ \A i \in 0..7 :
                         i # 6 => trap'.stack_frame[i] = trap.stack_frame[i]
          /\ (At("act") /\ trap.fault_class = FAULT_CLASS_DEGRADED /\ trap' # trap)
                => /\ trap'.stack_frame = trap.stack_frame
                   /\ sys' = [mode |-> "degraded", reason |-> "BUS_FAULT"]
                   /\ trap'.pc = "return"
       ]_vars
    /\ []((trap.pc \in {"act", "return", "halted", "reset"}
             /\ trap.fault_class # FAULT_CLASS_RECOVERABLE) => FrameAsCaptured)
    /\ []((trap.pc = "return" /\ trap.fault_class = FAULT_CLASS_DEGRADED)
            => (sys.mode = "degraded" /\ ENABLED TrapReturn))

\* A handler that classified a precise bus error as Degraded is about to return
\* with the system in degraded mode and the stacked pc where the fault left it.
C34_Witness ==
    /\ trap.pc = "return"
    /\ trap.fault_class = FAULT_CLASS_DEGRADED
    /\ trap.record.cfsr = Pow2(PRECISERR)
    /\ sys.mode = "degraded"
    /\ trap.stack_frame[6] = trap.record.pc
    /\ trap.stack_frame = FrameB

====
